---- MODULE Spec2Model ----
(***************************************************************************)
(* MicroSelectIA: the candidate/job matching engine                        *)
(* (app/services/matching_engine.py), the semantic matcher it consults     *)
(* (app/services/ai_matcher.py), the request schemas                       *)
(* (app/schemas/matching.py) and the configuration (app/core/config.py).   *)
(*                                                                         *)
(* Python floats are modelled as exact rationals [n, d] in lowest terms    *)
(* (IEEE rounding is not modelled); Python str values are TLA+ strings,    *)
(* taken apart one character at a time with SubSeq; Optional[T] is the     *)
(* empty tuple (None) or a one-element tuple.                              *)
(***************************************************************************)
EXTENDS Integers, Sequences, FiniteSets, TLC

(***************************************************************************)
(* Bounds of the model.                                                    *)
(***************************************************************************)
\* candidate experience_years ranges over 0..MaxYears
MaxYears == 6
\* job min_experience_years ranges over None and -2..MaxMinYears
MaxMinYears == 5
\* a batch holds 0..MaxBatch candidates
MaxBatch == 3
\* the embedding model is one of the deterministic models 0..MaxSeed
MaxSeed == 5
\* the interpreter's string-hash seed (set iteration order) is 0..MaxHashSeed
MaxHashSeed == 1

(***************************************************************************)
(* Rational arithmetic.                                                    *)
(***************************************************************************)
Abs(x) == IF x < 0 THEN -x ELSE x

RECURSIVE GCD(_, _)
GCD(a, b) == IF b = 0 THEN a ELSE GCD(b, a % b)

Q(n, d) ==
    LET g == GCD(Abs(n), Abs(d))
        s == IF d < 0 THEN -1 ELSE 1
    IN  [n |-> (s * n) \div g, d |-> (s * d) \div g]

Zero == Q(0, 1)
One == Q(1, 1)
QAdd(a, b) == Q(a.n * b.d + b.n * a.d, a.d * b.d)
QSub(a, b) == Q(a.n * b.d - b.n * a.d, a.d * b.d)
QMul(a, b) == Q(a.n * b.n, a.d * b.d)
QDiv(a, b) == Q(a.n * b.d, a.d * b.n)
QLe(a, b) == a.n * b.d <= b.n * a.d
QLt(a, b) == a.n * b.d < b.n * a.d
QMin(a, b) == IF QLe(a, b) THEN a ELSE b
QMax(a, b) == IF QLe(a, b) THEN b ELSE a
InUnit(a) == QLe(Zero, a) /\ QLe(a, One)

RECURSIVE QSum(_)
QSum(s) == IF s = <<>> THEN Zero ELSE QAdd(Head(s), QSum(Tail(s)))

(***************************************************************************)
(* Optional values and exceptions.                                         *)
(***************************************************************************)
None == <<>>
Some(v) == <<v>>
IsNone(o) == o = <<>>
Get(o) == o[1]

Returned(v) == [raised |-> "", value |-> <<v>>]
Raised(e) == [raised |-> e, value |-> <<>>]

(***************************************************************************)
(* Python str operations.                                                  *)
(***************************************************************************)
Upper == "ABCDEFGHIJKLMNOPQRSTUVWXYZ"
Alphabet == "abcdefghijklmnopqrstuvwxyz"

CharAt(s, i) == SubSeq(s, i, i)

UpperSet == {CharAt(Upper, i) : i \in 1..Len(Upper)}
AlphabetSet == {CharAt(Alphabet, i) : i \in 1..Len(Alphabet)}
LowerOf == [c \in UpperSet |->
               CharAt(Alphabet, CHOOSE i \in 1..Len(Upper) : CharAt(Upper, i) = c)]
CodeOf == [c \in AlphabetSet |-> CHOOSE i \in 1..Len(Alphabet) : CharAt(Alphabet, i) = c]

\* str.lower() of one character
LowerChar(c) == IF c \in UpperSet THEN LowerOf[c] ELSE c

\* str.lower(), a half of the string at a time
RECURSIVE Lower(_)
Lower(s) ==
    IF Len(s) = 0 THEN ""
    ELSE IF Len(s) = 1 THEN LowerChar(s)
    ELSE LET h == Len(s) \div 2
         IN  Lower(SubSeq(s, 1, h)) \o Lower(SubSeq(s, h + 1, Len(s)))

RECURSIVE LStrip(_)
LStrip(s) ==
    IF s # "" /\ CharAt(s, 1) = " " THEN LStrip(SubSeq(s, 2, Len(s))) ELSE s

RECURSIVE RStrip(_)
RStrip(s) ==
    IF s # "" /\ CharAt(s, Len(s)) = " " THEN RStrip(SubSeq(s, 1, Len(s) - 1)) ELSE s

Strip(s) == RStrip(LStrip(s))

\* needle in hay
Contains(hay, needle) ==
    \E i \in 1..(Len(hay) - Len(needle) + 1) :
        SubSeq(hay, i, i + Len(needle) - 1) = needle

RECURSIVE Join(_, _)
Join(sep, parts) ==
    IF parts = <<>> THEN ""
    ELSE IF Len(parts) = 1 THEN parts[1]
    ELSE parts[1] \o sep \o Join(sep, Tail(parts))

\* a number for each character and each text, from which the embedding
\* models below derive their vectors' cosines
CharCode(c) == IF c \in AlphabetSet THEN CodeOf[c] ELSE 0

RECURSIVE TextCode(_)
TextCode(s) ==
    IF Len(s) = 0 THEN 0
    ELSE IF Len(s) = 1 THEN CharCode(s)
    ELSE LET h == Len(s) \div 2
         IN  (TextCode(SubSeq(s, 1, h)) + 3 * TextCode(SubSeq(s, h + 1, Len(s)))) % 101

(***************************************************************************)
(* Generic list helpers.                                                   *)
(***************************************************************************)
Range(s) == {s[i] : i \in DOMAIN s}

RECURSIVE Filter(_, _)
Filter(s, keep) ==
    IF s = <<>> THEN <<>>
    ELSE IF Head(s) \in keep THEN <<Head(s)>> \o Filter(Tail(s), keep)
    ELSE Filter(Tail(s), keep)


(***************************************************************************)
(* State.                                                                  *)
(*   phase       where the process is: "boot", "configured" (config.py     *)
(*               was imported), or "ValueError" (its weight check raised)  *)
(*   env         the four weights of the environment/.env, in thousandths  *)
(*   settings    config.settings, None until config.py is imported         *)
(*   validations how many times validate_weights has run                   *)
(*   seed        which deterministic embedding model the provider loads    *)
(*   hashseed    the interpreter's string-hash seed                        *)
(*   engine      _matching_engine_instance, None until first use           *)
(*   ai_matcher  _ai_matcher_instance, None until first use                *)
(*   constructed how many engines and provider services were constructed   *)
(*               and how many times a model was loaded                     *)
(*   call        the engine method invocation in progress and its outcome  *)
(***************************************************************************)
VARIABLES phase, env, settings, validations, seed, hashseed, up, engine, ai_matcher,
          constructed, call

vars == <<phase, env, settings, validations, seed, hashseed, up, engine, ai_matcher,
          constructed, call>>

\* the module globals of the two services, passed through the calls that set them
Globals == [engine |-> engine, ai_matcher |-> ai_matcher, constructed |-> constructed]

(***************************************************************************)
(* app/core/config.py                                                      *)
(***************************************************************************)
\* the weights the environment may set (thousandths); the first is the default
\* the weights Settings declares as defaults, in thousandths
DefaultWeights ==
    [SKILLS_WEIGHT |-> 400, EXPERIENCE_WEIGHT |-> 250,
     SEMANTIC_WEIGHT |-> 250, EDUCATION_WEIGHT |-> 100]

WeightEnvs ==
    { DefaultWeights,
      [SKILLS_WEIGHT |-> 409, EXPERIENCE_WEIGHT |-> 250,
       SEMANTIC_WEIGHT |-> 250, EDUCATION_WEIGHT |-> 100],
      [SKILLS_WEIGHT |-> 391, EXPERIENCE_WEIGHT |-> 250,
       SEMANTIC_WEIGHT |-> 250, EDUCATION_WEIGHT |-> 100],
      [SKILLS_WEIGHT |-> 1500, EXPERIENCE_WEIGHT |-> -500,
       SEMANTIC_WEIGHT |-> 0, EDUCATION_WEIGHT |-> 0],
      [SKILLS_WEIGHT |-> 410, EXPERIENCE_WEIGHT |-> 250,
       SEMANTIC_WEIGHT |-> 250, EDUCATION_WEIGHT |-> 100],
      [SKILLS_WEIGHT |-> 390, EXPERIENCE_WEIGHT |-> 250,
       SEMANTIC_WEIGHT |-> 250, EDUCATION_WEIGHT |-> 100],
      [SKILLS_WEIGHT |-> 500, EXPERIENCE_WEIGHT |-> 250,
       SEMANTIC_WEIGHT |-> 250, EDUCATION_WEIGHT |-> 100] }

\* Settings(): the fields the class declares, the weights read from the environment
Settings(e) ==
    [ AI_MODEL |-> "sentence-transformers/all-MiniLM-L6-v2",
      SKILLS_WEIGHT |-> Q(e.SKILLS_WEIGHT, 1000),
      EXPERIENCE_WEIGHT |-> Q(e.EXPERIENCE_WEIGHT, 1000),
      SEMANTIC_WEIGHT |-> Q(e.SEMANTIC_WEIGHT, 1000),
      EDUCATION_WEIGHT |-> Q(e.EDUCATION_WEIGHT, 1000),
      MIN_MATCH_SCORE |-> Q(30, 100),
      GOOD_MATCH_SCORE |-> Q(60, 100),
      EXCELLENT_MATCH_SCORE |-> Q(80, 100) ]

\* attribute access on a pydantic model: an undeclared name raises
GetAttr(obj, name) ==
    IF name \in DOMAIN obj THEN Returned(obj[name]) ELSE Raised("AttributeError")

WeightTotal(s) ==
    QAdd(QAdd(QAdd(s.SKILLS_WEIGHT, s.EXPERIENCE_WEIGHT), s.SEMANTIC_WEIGHT),
         s.EDUCATION_WEIGHT)

validate_weights_always(s) == TRUE

validate_weights(s) ==
    LET total == WeightTotal(s)
        diff == QSub(total, One)
        absdiff == IF QLt(diff, Zero) THEN QSub(Zero, diff) ELSE diff
    IN  QLt(absdiff, Q(1, 100))

\* the process-wide settings object that the engine asks get_settings() for
get_settings == Get(settings)

(***************************************************************************)
(* app/schemas/matching.py                                                 *)
(***************************************************************************)
\* normalize_skills (a 'before' validator): strip, then lower, each skill
normalize_skills(v) == [i \in DOMAIN v |-> Lower(Strip(v[i]))]

\* CandidateSchema(**raw): experience_years must be >= 0
CandidateSchema(raw) ==
    IF QLt(raw.experience_years, Zero) THEN Raised("ValidationError")
    ELSE Returned([raw EXCEPT !.skills = normalize_skills(raw.skills)])

\* JobSchema(**raw): min_experience_years is Optional[float] with no bound
JobSchema(raw) == Returned([raw EXCEPT !.skills = normalize_skills(raw.skills)])

\* MatchBreakdown(...): every present field must be within [0, 1]
MatchBreakdown(skills, experience, education, semantic, location) ==
    IF /\ InUnit(skills) /\ InUnit(experience) /\ InUnit(education)
       /\ InUnit(semantic) /\ (IsNone(location) \/ InUnit(Get(location)))
    THEN Returned([ skills_match |-> skills, experience_match |-> experience,
                    education_match |-> education, semantic_match |-> semantic,
                    location_match |-> location ])
    ELSE Raised("ValidationError")

\* SingleMatchResponse(...): the score within [0, 1], the percentage within 0..100
SingleMatchResponse(r) ==
    IF InUnit(r.compatibility_score) /\ r.match_percentage \in 0..100
    THEN Returned(r) ELSE Raised("ValidationError")

\* RankedMatchResult(...): as SingleMatchResponse, and rank >= 1
RankedMatchResult(r) ==
    IF InUnit(r.compatibility_score) /\ r.match_percentage \in 0..100 /\ r.rank >= 1
    THEN Returned(r) ELSE Raised("ValidationError")

\* the first exception among a list of outcomes, "" if none raised
RECURSIVE FirstRaised(_)
FirstRaised(outcomes) ==
    IF outcomes = <<>> THEN ""
    ELSE IF Head(outcomes).raised # "" THEN Head(outcomes).raised
    ELSE FirstRaised(Tail(outcomes))

\* SingleMatchRequest(**raw): a candidate and a job
SingleMatchRequest(raw) ==
    LET candidate == CandidateSchema(raw.candidate)
        job == JobSchema(raw.job)
    IN  IF candidate.raised # "" THEN candidate
        ELSE IF job.raised # "" THEN job
        ELSE Returned([candidate |-> Get(candidate.value), job |-> Get(job.value)])

\* ExplainMatchRequest(**raw): a candidate, a job and include_suggestions
ExplainMatchRequest(raw) ==
    LET candidate == CandidateSchema(raw.candidate)
        job == JobSchema(raw.job)
    IN  IF candidate.raised # "" THEN candidate
        ELSE IF job.raised # "" THEN job
        ELSE Returned([candidate |-> Get(candidate.value), job |-> Get(job.value),
                       include_suggestions |-> raw.include_suggestions])

\* ExplainMatchResponse(...): its score fields carry no bounds
ExplainMatchResponse(r) == Returned(r)

BatchMatchRequest_ids_unchecked(raw) ==
    LET made == [i \in DOMAIN raw.candidates |-> CandidateSchema(raw.candidates[i])]
        job == JobSchema(raw.job)
    IN  IF FirstRaised(made) # "" THEN Raised(FirstRaised(made))
        ELSE IF Len(made) < 1 THEN Raised("ValidationError")
        ELSE IF job.raised # "" THEN job
        ELSE Returned([candidates |-> [i \in DOMAIN made |-> Get(made[i].value)],
                       job |-> Get(job.value)])

\* BatchMatchRequest(**raw): at least one candidate, candidate ids unique
BatchMatchRequest(raw) ==
    LET made == [i \in DOMAIN raw.candidates |-> CandidateSchema(raw.candidates[i])]
        job == JobSchema(raw.job)
    IN  IF FirstRaised(made) # "" THEN Raised(FirstRaised(made))
        ELSE IF Len(made) < 1 THEN Raised("ValidationError")
        ELSE LET v == [i \in DOMAIN made |-> Get(made[i].value)]
                 ids == [i \in DOMAIN v |-> v[i].id]
             IN  IF Len(ids) # Cardinality(Range(ids)) THEN Raised("ValidationError")
                 ELSE IF job.raised # "" THEN job
                 ELSE Returned([candidates |-> v, job |-> Get(job.value)])

\* BatchMatchResponse(...): average_score must be within [0, 1]
BatchMatchResponse(r) ==
    IF ~InUnit(r.average_score) THEN Raised("ValidationError") ELSE Returned(r)

(***************************************************************************)
(* app/services/ai_matcher.py                                              *)
(***************************************************************************)
\* the cosines the embedding models can produce between two different texts
CosValues == << Zero, Q(1, 2), Q(7, 10), Q(9, 10), One, Q(-1, 2) >>

\* cosine_similarity(model.encode(a), model.encode(b)) under model m:
\* deterministic, symmetric, 1 for identical texts; model 0 finds every two
\* different texts unrelated, the others spread the pairs over CosValues
Cosine(m, a, b) ==
    IF a = b THEN One
    ELSE CosValues[(((TextCode(a) + TextCode(b) + 1) * m) % Len(CosValues)) + 1]

\* AIMatcherService(model_name): no model yet
AIMatcherService(model_name) == [model_name |-> model_name, model |-> None]

\* load_model: loads the model unless the service has one
load_model(self) == IF self.model = None THEN [self EXCEPT !.model = Some(seed)] ELSE self

\* how many models one load_model call loads
load_model_loads(self) == IF self.model = None THEN 1 ELSE 0

\* a variant that constructs and loads a service on every call
get_ai_matcher_every_call(g, model_name) ==
    LET created == AIMatcherService(model_name)
    IN  [g EXCEPT !.ai_matcher = Some(load_model(created)),
                  !.constructed.matchers = @ + 1,
                  !.constructed.loads = @ + load_model_loads(created)]

\* get_ai_matcher(model_name): the globals after the call; the singleton is
\* g.ai_matcher, constructed and loaded if there was none
get_ai_matcher(g, model_name) ==
    IF g.ai_matcher = None
    THEN LET created == AIMatcherService(model_name)
         IN  [g EXCEPT !.ai_matcher = Some(load_model(created)),
                       !.constructed.matchers = @ + 1,
                       !.constructed.loads = @ + load_model_loads(created)]
    ELSE g

calculate_similarity(self, text1, text2) ==
    LET similarity == Cosine(Get(self.model), text1, text2)
    IN  QMax(Zero, QMin(One, similarity))

\* similarity_matrix[idx].max(): the best cosine of one job skill over the
\* candidate's skills
MaxSimilarity(self, job_skill, candidate_skills) ==
    LET row == {Cosine(Get(self.model), job_skill, candidate_skills[i]) :
                    i \in DOMAIN candidate_skills}
    IN  CHOOSE x \in row : \A y \in row : QLe(y, x)

RECURSIVE SemanticLoop_above_threshold(_, _, _, _)
SemanticLoop_above_threshold(self, job_skills, candidate_skills, threshold) ==
    IF job_skills = <<>> THEN << <<>>, <<>> >>
    ELSE LET rest == SemanticLoop_above_threshold(self, Tail(job_skills),
                                                  candidate_skills, threshold)
             max_similarity == MaxSimilarity(self, Head(job_skills), candidate_skills)
         IN  IF QLt(threshold, max_similarity)
             THEN << <<Head(job_skills)>> \o rest[1], <<max_similarity>> \o rest[2] >>
             ELSE rest

\* the loop of match_skills_semantic: <<matched_skills, match_scores>>
RECURSIVE SemanticLoop(_, _, _, _)
SemanticLoop(self, job_skills, candidate_skills, threshold) ==
    IF job_skills = <<>> THEN << <<>>, <<>> >>
    ELSE LET rest == SemanticLoop(self, Tail(job_skills), candidate_skills, threshold)
             max_similarity == MaxSimilarity(self, Head(job_skills), candidate_skills)
         IN  IF QLe(threshold, max_similarity)
             THEN << <<Head(job_skills)>> \o rest[1], <<max_similarity>> \o rest[2] >>
             ELSE rest

\* returns <<avg_score, matched_skills>>
match_skills_semantic(self, candidate_skills_in, job_skills_in) ==
    IF candidate_skills_in = <<>> \/ job_skills_in = <<>> THEN << Zero, <<>> >>
    ELSE LET candidate_skills ==
                 [i \in DOMAIN candidate_skills_in |-> Strip(Lower(candidate_skills_in[i]))]
             job_skills ==
                 [i \in DOMAIN job_skills_in |-> Strip(Lower(job_skills_in[i]))]
         IN  CHOOSE outcome \in
                 { LET matched_skills == loop[1]
                       match_scores == loop[2]
                       avg_score == IF match_scores # <<>>
                                    THEN QDiv(QSum(match_scores), Q(Len(match_scores), 1))
                                    ELSE Zero
                   IN  << avg_score, matched_skills >> :
                     loop \in { SemanticLoop(self, job_skills, candidate_skills,
                                             Q(7, 10)) } } : TRUE

match_text_semantic(self, candidate_text, job_text) ==
    IF candidate_text = "" \/ job_text = "" THEN Zero
    ELSE calculate_similarity(self, candidate_text, job_text)

\* what reaches the caller when self.model.encode fails: the exception of the
\* embedding library, which no method of the service or the engine catches
ProviderFailure == "ProviderFailure"

\* how often match_skills_semantic calls self.model.encode
match_skills_semantic_encodes(self, candidate_skills_in, job_skills_in) ==
    IF candidate_skills_in = <<>> \/ job_skills_in = <<>> THEN 0 ELSE 2

\* how often match_text_semantic calls self.model.encode (in calculate_similarity)
match_text_semantic_encodes(self, candidate_text, job_text) ==
    IF candidate_text = "" \/ job_text = "" THEN 0 ELSE 1

(***************************************************************************)
(* app/services/matching_engine.py: the calculators                        *)
(***************************************************************************)
\* where a string falls in a set's iteration order under the process's hash seed
HashKey(s) == ((2 * hashseed + 1) * TextCode(s) + 37 * hashseed) % 101

\* list(a_set): the set's elements in iteration order
RECURSIVE SetToList(_)
SetToList(S) ==
    IF S = {} THEN <<>>
    ELSE LET x == CHOOSE x \in S : \A y \in S : HashKey(x) <= HashKey(y)
         IN  <<x>> \o SetToList(S \ {x})

\* MatchingEngine(): the settings and the provider singleton; the globals after
\* the construction, the new engine in g.engine
MatchingEngine(g) ==
    LET s == get_settings
        after == get_ai_matcher(g, s.AI_MODEL)
    IN  [after EXCEPT !.engine = Some([settings |-> s, ai_matcher |-> Get(after.ai_matcher)]),
                      !.constructed.engines = @ + 1]

\* get_matching_engine(): the globals after the call; the singleton is g.engine
GetMatchingEngine(g) == IF g.engine = None THEN MatchingEngine(g) ELSE g

calculate_skills_match_no_early_return(self, candidate, job) ==
    LET candidate_skills == {Strip(Lower(candidate.skills[i])) : i \in DOMAIN candidate.skills}
        job_skills == {Strip(Lower(job.skills[i])) : i \in DOMAIN job.skills}
        matched_skills == SetToList(candidate_skills \cap job_skills)
        missing_skills == SetToList(job_skills \ candidate_skills)
        exact_match_score == IF job_skills # {}
                             THEN Q(Len(matched_skills), Cardinality(job_skills))
                             ELSE Zero
    IN  IF missing_skills # <<>> /\ candidate.skills # <<>>
        THEN CHOOSE outcome \in
                { LET final_score == QAdd(QMul(exact_match_score, Q(7, 10)),
                                          QMul(sem[1], Q(3, 10)))
                  IN  << QMin(One, final_score), matched_skills \o sem[2],
                         Filter(missing_skills, Range(missing_skills) \ Range(sem[2])) >> :
                    sem \in { match_skills_semantic(self.ai_matcher, candidate.skills,
                                                    missing_skills) } } : TRUE
        ELSE << QMin(One, exact_match_score), matched_skills, missing_skills >>

calculate_skills_match_keep_missing(self, candidate, job) ==
    IF job.skills = <<>> THEN << One, <<>>, <<>> >>
    ELSE LET candidate_skills == {Strip(Lower(candidate.skills[i])) : i \in DOMAIN candidate.skills}
             job_skills == {Strip(Lower(job.skills[i])) : i \in DOMAIN job.skills}
             matched_skills == SetToList(candidate_skills \cap job_skills)
             missing_skills == SetToList(job_skills \ candidate_skills)
             exact_match_score == IF job_skills # {}
                                  THEN Q(Len(matched_skills), Cardinality(job_skills))
                                  ELSE Zero
         IN  IF missing_skills # <<>> /\ candidate.skills # <<>>
             THEN CHOOSE outcome \in
                     { LET final_score == QAdd(QMul(exact_match_score, Q(7, 10)),
                                               QMul(sem[1], Q(3, 10)))
                       IN  << QMin(One, final_score), matched_skills \o sem[2],
                              missing_skills >> :
                         sem \in { match_skills_semantic(self.ai_matcher, candidate.skills,
                                                         missing_skills) } } : TRUE
             ELSE << QMin(One, exact_match_score), matched_skills, missing_skills >>

\* a variant that takes the semantic matches out of missing_skills without
\* adding them to matched_skills
calculate_skills_match_semantic_dropped(self, candidate, job) ==
    IF job.skills = <<>> THEN << One, <<>>, <<>> >>
    ELSE LET candidate_skills == {Strip(Lower(candidate.skills[i])) : i \in DOMAIN candidate.skills}
             job_skills == {Strip(Lower(job.skills[i])) : i \in DOMAIN job.skills}
             matched_skills == SetToList(candidate_skills \cap job_skills)
             missing_skills == SetToList(job_skills \ candidate_skills)
             exact_match_score == IF job_skills # {}
                                  THEN Q(Len(matched_skills), Cardinality(job_skills))
                                  ELSE Zero
         IN  IF missing_skills # <<>> /\ candidate.skills # <<>>
             THEN CHOOSE outcome \in
                     { << QMin(One, QAdd(QMul(exact_match_score, Q(7, 10)),
                                         QMul(sem[1], Q(3, 10)))),
                          matched_skills,
                          Filter(missing_skills,
                                 Range(missing_skills) \ Range(sem[2])) >> :
                         sem \in { match_skills_semantic(self.ai_matcher, candidate.skills,
                                                         missing_skills) } } : TRUE
             ELSE << QMin(One, exact_match_score), matched_skills, missing_skills >>

\* returns <<score, matched_skills, missing_skills>>
calculate_skills_match(self, candidate, job) ==
    IF job.skills = <<>> THEN << One, <<>>, <<>> >>
    ELSE LET candidate_skills == {Strip(Lower(candidate.skills[i])) : i \in DOMAIN candidate.skills}
             job_skills == {Strip(Lower(job.skills[i])) : i \in DOMAIN job.skills}
             matched_skills == SetToList(candidate_skills \cap job_skills)
             missing_skills == SetToList(job_skills \ candidate_skills)
             exact_match_score == IF job_skills # {}
                                  THEN Q(Len(matched_skills), Cardinality(job_skills))
                                  ELSE Zero
         IN  IF missing_skills # <<>> /\ candidate.skills # <<>>
             THEN CHOOSE outcome \in
                     { LET semantic_score == sem[1]
                           semantic_matches == sem[2]
                           final_score == QAdd(QMul(exact_match_score, Q(7, 10)),
                                               QMul(semantic_score, Q(3, 10)))
                       IN  << QMin(One, final_score),
                              matched_skills \o semantic_matches,
                              Filter(missing_skills,
                                     Range(missing_skills) \ Range(semantic_matches)) >> :
                         sem \in { match_skills_semantic(self.ai_matcher, candidate.skills,
                                                         missing_skills) } } : TRUE
             ELSE << QMin(One, exact_match_score), matched_skills, missing_skills >>

calculate_experience_match(self, candidate, job) ==
    IF IsNone(job.min_experience_years) \/ Get(job.min_experience_years) = Zero
    THEN One
    ELSE LET candidate_exp == candidate.experience_years
             required_exp == Get(job.min_experience_years)
         IN  IF QLe(required_exp, candidate_exp)
             THEN LET excess == QSub(candidate_exp, required_exp)
                      bonus == QMin(Q(2, 10), QDiv(excess, QMul(required_exp, Q(2, 1))))
                  IN  QMin(One, QAdd(One, bonus))
             ELSE LET ratio == QDiv(candidate_exp, required_exp)
                  IN  QMax(Zero, ratio)

edu_keywords ==
    << "bachelor", "master", "phd", "doctorate", "degree",
       "licenciatura", "maestría", "doctorado", "título" >>

\* f"{edu.degree} in {edu.field or ''} from {edu.institution}"
EducationText(edu) ==
    edu.degree \o " in " \o (IF IsNone(edu.field) THEN "" ELSE Get(edu.field))
        \o " from " \o edu.institution

calculate_education_match_scaled(self, candidate, job) ==
    IF candidate.education = <<>> \/ job.requirements = <<>> THEN Q(1, 2)
    ELSE LET job_reqs_text == Lower(Join(" ", job.requirements))
             has_edu_requirement ==
                 \E k \in DOMAIN edu_keywords : Contains(job_reqs_text, edu_keywords[k])
             education_texts ==
                 [i \in DOMAIN candidate.education |-> EducationText(candidate.education[i])]
         IN  IF ~has_edu_requirement THEN One
             ELSE QMul(match_text_semantic(self.ai_matcher, Join(". ", education_texts),
                                           job_reqs_text), Q(6, 10))

calculate_education_match(self, candidate, job) ==
    IF candidate.education = <<>> \/ job.requirements = <<>> THEN Q(1, 2)
    ELSE LET job_reqs_text == Lower(Join(" ", job.requirements))
             has_edu_requirement ==
                 \E k \in DOMAIN edu_keywords : Contains(job_reqs_text, edu_keywords[k])
             education_texts ==
                 [i \in DOMAIN candidate.education |-> EducationText(candidate.education[i])]
         IN  IF ~has_edu_requirement THEN One
             ELSE IF education_texts = <<>> THEN Q(3, 10)
             ELSE match_text_semantic(self.ai_matcher, Join(". ", education_texts), job_reqs_text)

\* f"{exp.position} at {exp.company}. {exp.description or ''}"
ExperienceText(exp) ==
    exp.position \o " at " \o exp.company \o ". "
        \o (IF IsNone(exp.description) THEN "" ELSE Get(exp.description))

calculate_semantic_match_no_neutral(self, candidate, job) ==
    LET summary_part == IF ~IsNone(candidate.summary) /\ Get(candidate.summary) # ""
                        THEN <<Get(candidate.summary)>> ELSE <<>>
        exp_texts == [i \in DOMAIN candidate.experience |-> ExperienceText(candidate.experience[i])]
        candidate_text == Join(" ", summary_part \o exp_texts)
        job_text == job.title \o ". " \o job.description \o ". " \o Join(" ", job.requirements)
    IN  match_text_semantic(self.ai_matcher, candidate_text, job_text)

calculate_semantic_match(self, candidate, job) ==
    LET summary_part == IF ~IsNone(candidate.summary) /\ Get(candidate.summary) # ""
                        THEN <<Get(candidate.summary)>> ELSE <<>>
        exp_texts == [i \in DOMAIN candidate.experience |-> ExperienceText(candidate.experience[i])]
        candidate_text == Join(" ", summary_part \o exp_texts)
        job_text == job.title \o ". " \o job.description \o ". " \o Join(" ", job.requirements)
    IN  IF candidate_text = "" \/ job_text = "" THEN Q(1, 2)
        ELSE match_text_semantic(self.ai_matcher, candidate_text, job_text)

remote_keywords == << "remote", "remoto", "anywhere", "cualquier lugar" >>

calculate_location_match_unscaled(self, candidate, job) ==
    IF IsNone(job.location) \/ Get(job.location) = "" THEN One
    ELSE IF IsNone(candidate.location) \/ Get(candidate.location) = "" THEN Q(1, 2)
    ELSE LET candidate_loc == Strip(Lower(Get(candidate.location)))
             job_loc == Strip(Lower(Get(job.location)))
         IN  IF \E k \in DOMAIN remote_keywords : Contains(job_loc, remote_keywords[k])
             THEN One
             ELSE IF candidate_loc = job_loc THEN One
             ELSE IF Contains(job_loc, candidate_loc) \/ Contains(candidate_loc, job_loc)
             THEN Q(8, 10)
             ELSE calculate_similarity(self.ai_matcher, candidate_loc, job_loc)

calculate_location_match(self, candidate, job) ==
    IF IsNone(job.location) \/ Get(job.location) = "" THEN One
    ELSE IF IsNone(candidate.location) \/ Get(candidate.location) = "" THEN Q(1, 2)
    ELSE LET candidate_loc == Strip(Lower(Get(candidate.location)))
             job_loc == Strip(Lower(Get(job.location)))
         IN  IF \E k \in DOMAIN remote_keywords : Contains(job_loc, remote_keywords[k])
             THEN One
             ELSE IF candidate_loc = job_loc THEN One
             ELSE IF Contains(job_loc, candidate_loc) \/ Contains(candidate_loc, job_loc)
             THEN Q(8, 10)
             ELSE QMul(calculate_similarity(self.ai_matcher, candidate_loc, job_loc), Q(6, 10))

calculate_overall_score_no_boost(self, breakdown) ==
    QAdd(QAdd(QAdd(
        QMul(breakdown.skills_match, self.settings.SKILLS_WEIGHT),
        QMul(breakdown.experience_match, self.settings.EXPERIENCE_WEIGHT)),
        QMul(breakdown.education_match, self.settings.EDUCATION_WEIGHT)),
        QMul(breakdown.semantic_match, self.settings.SEMANTIC_WEIGHT))

calculate_overall_score_location_weighted(self, breakdown) ==
    LET score == QAdd(QAdd(QAdd(
                     QMul(breakdown.skills_match, self.settings.SKILLS_WEIGHT),
                     QMul(breakdown.experience_match, self.settings.EXPERIENCE_WEIGHT)),
                     QMul(breakdown.education_match, self.settings.EDUCATION_WEIGHT)),
                     QMul(breakdown.semantic_match, self.settings.SEMANTIC_WEIGHT))
    IN  IF ~IsNone(breakdown.location_match)
        THEN LET location_boost == QMul(Get(breakdown.location_match),
                                        self.settings.EDUCATION_WEIGHT)
             IN  QMin(One, QAdd(score, location_boost))
        ELSE score

calculate_overall_score(self, breakdown) ==
    LET score == QAdd(QAdd(QAdd(
                     QMul(breakdown.skills_match, self.settings.SKILLS_WEIGHT),
                     QMul(breakdown.experience_match, self.settings.EXPERIENCE_WEIGHT)),
                     QMul(breakdown.education_match, self.settings.EDUCATION_WEIGHT)),
                     QMul(breakdown.semantic_match, self.settings.SEMANTIC_WEIGHT))
    IN  IF ~IsNone(breakdown.location_match)
        THEN LET location_boost == QMul(Get(breakdown.location_match), Q(5, 100))
             IN  QMin(One, QAdd(score, location_boost))
        ELSE score

\* reads three thresholds from the settings; each read may raise
determine_match_quality(self, score) ==
    LET excellent == GetAttr(self.settings, "EXCELLENT_MATCH_THRESHOLD")
        good == GetAttr(self.settings, "GOOD_MATCH_THRESHOLD")
        min == GetAttr(self.settings, "MIN_MATCH_THRESHOLD")
    IN  IF excellent.raised # "" THEN excellent
        ELSE IF QLe(Get(excellent.value), score) THEN Returned("excellent")
        ELSE IF good.raised # "" THEN good
        ELSE IF QLe(Get(good.value), score) THEN Returned("good")
        ELSE IF min.raised # "" THEN min
        ELSE IF QLe(Get(min.value), score) THEN Returned("medium")
        ELSE Returned("low")

(***************************************************************************)
(* app/services/matching_engine.py: the calls each calculator makes to the *)
(* embedding model (self.model.encode) on its way to its result            *)
(***************************************************************************)
calculate_skills_match_encodes_unconditional(self, candidate, job) ==
    IF job.skills = <<>> THEN 0
    ELSE match_skills_semantic_encodes(self.ai_matcher, candidate.skills, job.skills)

calculate_skills_match_encodes(self, candidate, job) ==
    IF job.skills = <<>> THEN 0
    ELSE LET candidate_skills == {Strip(Lower(candidate.skills[i])) : i \in DOMAIN candidate.skills}
             job_skills == {Strip(Lower(job.skills[i])) : i \in DOMAIN job.skills}
             missing_skills == SetToList(job_skills \ candidate_skills)
         IN  IF missing_skills # <<>> /\ candidate.skills # <<>>
             THEN match_skills_semantic_encodes(self.ai_matcher, candidate.skills, missing_skills)
             ELSE 0

calculate_education_match_encodes(self, candidate, job) ==
    IF candidate.education = <<>> \/ job.requirements = <<>> THEN 0
    ELSE LET job_reqs_text == Lower(Join(" ", job.requirements))
             has_edu_requirement ==
                 \E k \in DOMAIN edu_keywords : Contains(job_reqs_text, edu_keywords[k])
             education_texts ==
                 [i \in DOMAIN candidate.education |-> EducationText(candidate.education[i])]
         IN  IF ~has_edu_requirement THEN 0
             ELSE IF education_texts = <<>> THEN 0
             ELSE match_text_semantic_encodes(self.ai_matcher, Join(". ", education_texts),
                                              job_reqs_text)

calculate_semantic_match_encodes(self, candidate, job) ==
    LET summary_part == IF ~IsNone(candidate.summary) /\ Get(candidate.summary) # ""
                        THEN <<Get(candidate.summary)>> ELSE <<>>
        exp_texts == [i \in DOMAIN candidate.experience |-> ExperienceText(candidate.experience[i])]
        candidate_text == Join(" ", summary_part \o exp_texts)
        job_text == job.title \o ". " \o job.description \o ". " \o Join(" ", job.requirements)
    IN  IF candidate_text = "" \/ job_text = "" THEN 0
        ELSE match_text_semantic_encodes(self.ai_matcher, candidate_text, job_text)

calculate_location_match_encodes(self, candidate, job) ==
    IF IsNone(job.location) \/ Get(job.location) = "" THEN 0
    ELSE IF IsNone(candidate.location) \/ Get(candidate.location) = "" THEN 0
    ELSE LET candidate_loc == Strip(Lower(Get(candidate.location)))
             job_loc == Strip(Lower(Get(job.location)))
         IN  IF \E k \in DOMAIN remote_keywords : Contains(job_loc, remote_keywords[k])
             THEN 0
             ELSE IF candidate_loc = job_loc THEN 0
             ELSE IF Contains(job_loc, candidate_loc) \/ Contains(candidate_loc, job_loc)
             THEN 0
             ELSE 1

\* the five calculators of match_single together
match_single_encodes(self, candidate, job) ==
    calculate_skills_match_encodes(self, candidate, job)
        + calculate_education_match_encodes(self, candidate, job)
        + calculate_semantic_match_encodes(self, candidate, job)
        + calculate_location_match_encodes(self, candidate, job)

\* a method that calls the embedding model while it is failing raises
Fails(encodes) == encodes > 0 /\ ~up

(***************************************************************************)
(* app/services/matching_engine.py: explanation, single and batch match    *)
(***************************************************************************)
\* int(x): truncation towards zero
PyInt(q) == IF q.n >= 0 THEN q.n \div q.d ELSE -((-q.n) \div q.d)

\* s[:k]
Take(s, k) == SubSeq(s, 1, IF Len(s) < k THEN Len(s) ELSE k)

\* str(a_float); the jobs of this model ask for whole years only
FloatStr(q) == IF q.d = 1 THEN ToString(q.n) \o ".0"
               ELSE ToString(q.n) \o "/" \o ToString(q.d)

generate_explanation(self, candidate, job, breakdown, matched_skills, missing_skills, overall_score) ==
    LET quality == determine_match_quality(self, overall_score)
        percentage == PyInt(QMul(overall_score, Q(100, 1)))
        head == << candidate.name \o " tiene un " \o ToString(percentage)
                   \o "% de compatibilidad con el puesto " \o job.title \o "." >>
        matched == IF matched_skills # <<>>
                   THEN << "Habilidades coincidentes: " \o Join(", ", Take(matched_skills, 5))
                           \o (IF Len(matched_skills) > 5 THEN " y más" ELSE "") \o "." >>
                   ELSE <<>>
        missing == IF missing_skills # <<>>
                   THEN << "Habilidades por desarrollar: " \o Join(", ", Take(missing_skills, 3))
                           \o (IF Len(missing_skills) > 3 THEN " y otras" ELSE "") \o "." >>
                   ELSE <<>>
        experience ==
            IF QLe(Q(8, 10), breakdown.experience_match)
            THEN << "La experiencia del candidato supera los requisitos." >>
            ELSE IF QLe(Q(6, 10), breakdown.experience_match)
            THEN << "La experiencia del candidato cumple con los requisitos." >>
            ELSE << "El candidato necesita más experiencia para este puesto." >>
        closing(q) ==
            IF q = "excellent" THEN << "Candidato altamente recomendado para entrevista." >>
            ELSE IF q = "good" THEN << "Candidato recomendado para considerar." >>
            ELSE IF q = "medium"
            THEN << "Candidato con potencial, requiere evaluación adicional." >>
            ELSE << "Candidato no cumple con los requisitos mínimos." >>
    IN  IF quality.raised # "" THEN quality
        ELSE Returned(Join(" ", head \o matched \o missing \o experience
                                \o closing(Get(quality.value))))

generate_recommendations_every_missing(self, candidate, job, breakdown, missing_skills) ==
    LET skills == IF missing_skills # <<>>
                  THEN << "Desarrollar habilidades en: " \o Join(", ", missing_skills) >>
                  ELSE <<>>
        experience ==
            IF /\ QLt(breakdown.experience_match, Q(7, 10))
               /\ ~IsNone(job.min_experience_years)
               /\ Get(job.min_experience_years) # Zero
            THEN << "Ganar más experiencia relevante (ideal: "
                    \o FloatStr(Get(job.min_experience_years)) \o " años)" >>
            ELSE <<>>
        education ==
            IF QLt(breakdown.education_match, Q(6, 10))
            THEN << "Considerar certificaciones o formación adicional relacionada con el puesto" >>
            ELSE <<>>
        semantic ==
            IF QLt(breakdown.semantic_match, Q(6, 10))
            THEN << "Actualizar perfil profesional para resaltar experiencia relevante al puesto" >>
            ELSE <<>>
        recommendations == skills \o experience \o education \o semantic
    IN  IF recommendations = <<>> THEN << "Perfil muy completo, mantener actualizado" >>
        ELSE recommendations

generate_recommendations(self, candidate, job, breakdown, missing_skills) ==
    LET skills == IF missing_skills # <<>>
                  THEN << "Desarrollar habilidades en: " \o Join(", ", Take(missing_skills, 3)) >>
                  ELSE <<>>
        experience ==
            IF /\ QLt(breakdown.experience_match, Q(7, 10))
               /\ ~IsNone(job.min_experience_years)
               /\ Get(job.min_experience_years) # Zero
            THEN << "Ganar más experiencia relevante (ideal: "
                    \o FloatStr(Get(job.min_experience_years)) \o " años)" >>
            ELSE <<>>
        education ==
            IF QLt(breakdown.education_match, Q(6, 10))
            THEN << "Considerar certificaciones o formación adicional relacionada con el puesto" >>
            ELSE <<>>
        semantic ==
            IF QLt(breakdown.semantic_match, Q(6, 10))
            THEN << "Actualizar perfil profesional para resaltar experiencia relevante al puesto" >>
            ELSE <<>>
        recommendations == skills \o experience \o education \o semantic
    IN  IF recommendations = <<>> THEN << "Perfil muy completo, mantener actualizado" >>
        ELSE recommendations

\* the five sub-scores match_single computes first, in the order of the code:
\* <<skills (score, matched, missing), experience, education, semantic, location>>
match_single_scores(self, candidate, job) ==
    << calculate_skills_match(self, candidate, job),
       calculate_experience_match(self, candidate, job),
       calculate_education_match(self, candidate, job),
       calculate_semantic_match(self, candidate, job),
       calculate_location_match(self, candidate, job) >>

\* match_single from the breakdown on: Returned(a SingleMatchResponse) or Raised(e)
match_single_rest(self, candidate, job, scores) ==
    LET matched_skills == scores[1][2]
        missing_skills == scores[1][3]
        made == MatchBreakdown(scores[1][1], scores[2], scores[3], scores[4], Some(scores[5]))
    IN  IF made.raised # "" THEN made
        ELSE CHOOSE outcome \in
            { LET breakdown == Get(made.value)
                  match_percentage == PyInt(QMul(overall_score, Q(100, 1)))
                  recommendations == generate_recommendations(self, candidate, job,
                                         breakdown, missing_skills)
              IN  CHOOSE rest \in
                    { IF match_quality.raised # "" THEN match_quality
                      ELSE IF explanation.raised # "" THEN explanation
                      ELSE SingleMatchResponse(
                             [ candidate_id |-> candidate.id,
                               candidate_name |-> candidate.name,
                               job_id |-> job.id,
                               compatibility_score |-> overall_score,
                               match_percentage |-> match_percentage,
                               breakdown |-> breakdown,
                               matched_skills |-> matched_skills,
                               missing_skills |-> missing_skills,
                               explanation |-> Get(explanation.value),
                               recommendations |-> recommendations,
                               match_quality |-> Get(match_quality.value) ]) :
                        match_quality \in { determine_match_quality(self, overall_score) },
                        explanation \in { generate_explanation(self, candidate, job,
                                              breakdown, matched_skills, missing_skills,
                                              overall_score) } } : TRUE :
                overall_score \in { calculate_overall_score(self, Get(made.value)) } } : TRUE

\* the overall score match_single has computed when it reaches
\* determine_match_quality: None if the breakdown was rejected before
match_single_overall(self, scores) ==
    LET made == MatchBreakdown(scores[1][1], scores[2], scores[3], scores[4], Some(scores[5]))
    IN  IF made.raised # "" THEN None
        ELSE Some(calculate_overall_score(self, Get(made.value)))

match_single_substituting(self, candidate, job) ==
    CHOOSE outcome \in { match_single_rest(self, candidate, job, scores) :
                            scores \in { match_single_scores(self, candidate, job) } } : TRUE

\* the outcome of match_single (the sub-scores are computed once, then used);
\* a failing embedding model ends it in the first calculator that calls it
match_single(self, candidate, job) ==
    IF Fails(match_single_encodes(self, candidate, job)) THEN Raised(ProviderFailure)
    ELSE
    CHOOSE outcome \in { match_single_rest(self, candidate, job, scores) :
                            scores \in { match_single_scores(self, candidate, job) } } : TRUE

\* list.sort(key=compatibility_score, reverse=True): stable, so equal scores keep
\* their order; one element is put after every element that is not below it
RECURSIVE InsertDescending(_, _)
InsertDescending(sorted, m) ==
    IF sorted = <<>> THEN <<m>>
    ELSE IF QLe(m.compatibility_score, Head(sorted).compatibility_score)
    THEN <<Head(sorted)>> \o InsertDescending(Tail(sorted), m)
    ELSE <<m>> \o sorted

RECURSIVE SortDescending(_)
SortDescending(matches) ==
    IF matches = <<>> THEN <<>>
    ELSE InsertDescending(SortDescending(SubSeq(matches, 1, Len(matches) - 1)),
                          matches[Len(matches)])

\* the keys of skill_counts in insertion (first seen) order
RECURSIVE FirstSeen(_)
FirstSeen(skills) ==
    IF skills = <<>> THEN <<>>
    ELSE LET before == FirstSeen(SubSeq(skills, 1, Len(skills) - 1))
             last == skills[Len(skills)]
         IN  IF last \in Range(before) THEN before ELSE Append(before, last)

Count(skills, skill) == Cardinality({i \in DOMAIN skills : skills[i] = skill})

\* sorted(skill_counts.items(), key=count, reverse=True): stable
RECURSIVE InsertByCount(_, _, _)
InsertByCount(sorted, skill, all) ==
    IF sorted = <<>> THEN <<skill>>
    ELSE IF Count(all, skill) <= Count(all, Head(sorted))
    THEN <<Head(sorted)>> \o InsertByCount(Tail(sorted), skill, all)
    ELSE <<skill>> \o sorted

RECURSIVE SortByCount(_, _)
SortByCount(keys, all) ==
    IF keys = <<>> THEN <<>>
    ELSE InsertByCount(SortByCount(SubSeq(keys, 1, Len(keys) - 1), all),
                       keys[Len(keys)], all)

RECURSIVE Concat(_)
Concat(lists) == IF lists = <<>> THEN <<>> ELSE Head(lists) \o Concat(Tail(lists))

\* the loop over the candidates from position i on: Returned(the results so far
\* and to come, in input order), or the exception of the first match that raises
RECURSIVE MatchAll(_, _, _, _, _)
MatchAll(self, candidates, job, i, results) ==
    IF i > Len(candidates) THEN Returned(results)
    ELSE CHOOSE outcome \in
            { IF result.raised # "" THEN result
              ELSE MatchAll(self, candidates, job, i + 1,
                            Append(results, Get(result.value))) :
                result \in { match_single(self, candidates[i], job) } } : TRUE

\* the calls to the embedding model in the loop of match_batch from position
\* i on: those of every match up to and including the first one that raises
RECURSIVE match_batch_encodes(_, _, _, _)
match_batch_encodes(self, candidates, job, i) ==
    IF i > Len(candidates) THEN 0
    ELSE CHOOSE encodes \in
            { match_single_encodes(self, candidates[i], job)
                + (IF result.raised # "" THEN 0
                   ELSE match_batch_encodes(self, candidates, job, i + 1)) :
                result \in { match_single(self, candidates[i], job) } } : TRUE

\* match_batch after the loop: sort, rank, average, top skills
match_batch_rest(results) ==
    LET all_matched_skills == Concat([i \in DOMAIN results |-> results[i].matched_skills])
        matches == SortDescending(results)
        ranked == [rank \in DOMAIN matches |->
                      RankedMatchResult(
                        [ candidate_id |-> matches[rank].candidate_id,
                          candidate_name |-> matches[rank].candidate_name,
                          compatibility_score |-> matches[rank].compatibility_score,
                          match_percentage |-> matches[rank].match_percentage,
                          rank |-> rank,
                          breakdown |-> matches[rank].breakdown,
                          matched_skills |-> matches[rank].matched_skills,
                          missing_skills |-> matches[rank].missing_skills,
                          explanation |-> matches[rank].explanation,
                          recommendations |-> matches[rank].recommendations,
                          match_quality |-> matches[rank].match_quality ])]
        ranked_results == [i \in DOMAIN ranked |-> Get(ranked[i].value)]
        average_score ==
            IF matches # <<>>
            THEN QDiv(QSum([i \in DOMAIN matches |-> matches[i].compatibility_score]),
                      Q(Len(matches), 1))
            ELSE Zero
        top_skills == Take(SortByCount(FirstSeen(all_matched_skills),
                                       all_matched_skills), 10)
    IN  Returned(<< ranked_results, average_score, top_skills >>)

\* the outcome of match_batch: Returned(<<ranked_results, average_score,
\* top_skills>>), or the exception of the first candidate whose match raises
match_batch(self, candidates, job) ==
    CHOOSE outcome \in
        { IF looped.raised # "" THEN looped ELSE match_batch_rest(Get(looped.value)) :
            looped \in { MatchAll(self, candidates, job, 1, <<>>) } } : TRUE

\* the caller's objects after match_single: the calculators and the text
\* builders only read candidate and job; every list they fill is their own
match_single_leaves(self, candidate, job) == << candidate, job >>

match_batch_leaves_sorted(self, candidates, job) ==
    << [i \in DOMAIN candidates |-> candidates[Len(candidates) + 1 - i]], job >>

\* the caller's objects after match_batch: the loop reads candidates, and
\* matches.sort sorts the list of results match_batch built itself
match_batch_leaves(self, candidates, job) == << candidates, job >>

(***************************************************************************)
(* app/api/routes/matching.py: the HTTP routes.  A response is its status  *)
(* code, the detail of its HTTPException (the fixed text and, if any, the  *)
(* exception whose message follows it) and the body of a 200.              *)
(***************************************************************************)
\* the cap match_batch_candidates puts on the candidates of one request
MaxCandidatesPerBatch == 100

Response(status_code, detail, body) ==
    [status_code |-> status_code, detail |-> detail, body |-> body]

\* the body does not make the route's request model: FastAPI answers 422 and
\* does not run the route
Unprocessable == Response(422, <<"RequestValidationError">>, None)

\* GET /health (app/api/routes/health.py) once it has the provider: the
\* settings it reports are read one by one; a failed read leaves the route, and
\* the application's handler for Exception answers 500 without the message
health_check(s) ==
    LET read == FirstRaised(<< GetAttr(s, "AI_MODEL"),
                               GetAttr(s, "SKILLS_WEIGHT"),
                               GetAttr(s, "EXPERIENCE_WEIGHT"),
                               GetAttr(s, "EDUCATION_WEIGHT"),
                               GetAttr(s, "SEMANTIC_WEIGHT"),
                               GetAttr(s, "MIN_MATCH_THRESHOLD"),
                               GetAttr(s, "GOOD_MATCH_THRESHOLD"),
                               GetAttr(s, "EXCELLENT_MATCH_THRESHOLD") >>)
    IN  IF read # ""
        THEN Response(500, << "Internal Server Error", "An error occurred" >>, None)
        ELSE Response(200, <<>>, Some([status |-> "healthy", service |-> "MicroSelectIA"]))

\* POST /api/match/single, on a request that made SingleMatchRequest
match_single_candidate(self, request) ==
    CHOOSE response \in
        { IF result.raised # ""
          THEN Response(500, <<"Error processing match: ", result.raised>>, None)
          ELSE Response(200, <<>>, result.value) :
            result \in { match_single(self, request.candidate, request.job) } } : TRUE

\* f"{x*100:.0f}": x * 100 rounded to the nearest whole number, a half to the
\* even neighbour
Percent0f(x) ==
    LET twice == QMul(x, Q(200, 1))
        floor == (twice.n \div twice.d) \div 2
        half == twice.n = twice.d * (2 * floor + 1)
        above == twice.n > twice.d * (2 * floor + 1)
    IN  ToString(IF above \/ (half /\ floor % 2 = 1) THEN floor + 1 ELSE floor)

\* explain_match from the match result on: the body of its ExplainMatchResponse
explain_match_body(request, match_result) ==
    LET breakdown == match_result.breakdown
        detailed_analysis ==
            [ skills |-> "Coincidencia de habilidades: " \o Percent0f(breakdown.skills_match)
                  \o "%. Habilidades coincidentes: " \o ToString(Len(match_result.matched_skills))
                  \o ". Habilidades faltantes: " \o ToString(Len(match_result.missing_skills))
                  \o ".",
              experience |-> "Coincidencia de experiencia: "
                  \o Percent0f(breakdown.experience_match) \o "%. El candidato tiene "
                  \o FloatStr(request.candidate.experience_years) \o " años de experiencia.",
              education |-> "Coincidencia educativa: " \o Percent0f(breakdown.education_match)
                  \o "%. Educación registrada: " \o ToString(Len(request.candidate.education))
                  \o " registros.",
              semantic |-> "Similitud semántica: " \o Percent0f(breakdown.semantic_match)
                  \o "%. Análisis de compatibilidad entre el perfil del candidato y la descripción del trabajo." ]
        strengths ==
            (IF QLe(Q(7, 10), breakdown.skills_match)
             THEN << "Excelente match de habilidades técnicas" >> ELSE <<>>)
            \o (IF QLe(Q(8, 10), breakdown.experience_match)
                THEN << "Experiencia superior a los requisitos" >> ELSE <<>>)
            \o (IF QLe(Q(7, 10), breakdown.semantic_match)
                THEN << "Alto alineamiento con la descripción del puesto" >> ELSE <<>>)
            \o (IF Len(match_result.matched_skills) > 5
                THEN << "Domina " \o ToString(Len(match_result.matched_skills))
                        \o " habilidades relevantes" >> ELSE <<>>)
        weaknesses ==
            (IF QLt(breakdown.skills_match, Q(1, 2))
             THEN << "Falta de habilidades técnicas clave" >> ELSE <<>>)
            \o (IF QLt(breakdown.experience_match, Q(6, 10))
                THEN << "Experiencia por debajo de los requisitos" >> ELSE <<>>)
            \o (IF Len(match_result.missing_skills) > 5
                THEN << "Le faltan " \o ToString(Len(match_result.missing_skills))
                        \o " habilidades requeridas" >> ELSE <<>>)
            \o (IF QLt(breakdown.education_match, Q(1, 2))
                THEN << "Formación académica no alineada con requisitos" >> ELSE <<>>)
        decision ==
            IF match_result.match_quality = "excellent"
            THEN "RECOMENDADO FUERTEMENTE - Agendar entrevista con prioridad alta"
            ELSE IF match_result.match_quality = "good"
            THEN "RECOMENDADO - Agendar entrevista"
            ELSE IF match_result.match_quality = "medium"
            THEN "CONSIDERAR - Evaluación adicional recomendada"
            ELSE "NO RECOMENDADO - No cumple requisitos mínimos"
    IN  [ candidate_id |-> request.candidate.id,
          job_id |-> request.job.id,
          compatibility_score |-> match_result.compatibility_score,
          match_percentage |-> match_result.match_percentage,
          breakdown |-> breakdown,
          detailed_analysis |-> detailed_analysis,
          strengths |-> IF strengths = <<>>
                        THEN << "Perfil básico adecuado para evaluación" >> ELSE strengths,
          weaknesses |-> IF weaknesses = <<>>
                         THEN << "No se identificaron debilidades significativas" >>
                         ELSE weaknesses,
          suggestions |-> IF request.include_suggestions
                          THEN match_result.recommendations ELSE <<>>,
          decision_recommendation |-> decision ]

\* POST /api/match/explain, on a request that made ExplainMatchRequest
explain_match(self, request) ==
    CHOOSE response \in
        { IF result.raised # ""
          THEN Response(500, <<"Error generating explanation: ", result.raised>>, None)
          ELSE Response(200, <<>>,
                        ExplainMatchResponse(
                            explain_match_body(request, Get(result.value))).value) :
            result \in { match_single(self, request.candidate, request.job) } } : TRUE

\* POST /api/match/batch, on a request that made BatchMatchRequest
match_batch_candidates(self, request) ==
    IF Len(request.candidates) > MaxCandidatesPerBatch
    THEN Response(400, <<"Maximum 100 candidates per batch request">>, None)
    ELSE CHOOSE response \in
        { IF result.raised # ""
          THEN Response(500, <<"Error processing batch match: ", result.raised>>, None)
          ELSE LET made == BatchMatchResponse(
                              [ job_id |-> request.job.id,
                                job_title |-> request.job.title,
                                total_candidates |-> Len(request.candidates),
                                matches |-> Get(result.value)[1],
                                average_score |-> Get(result.value)[2],
                                top_skills_matched |-> Get(result.value)[3] ])
               IN  IF made.raised # ""
                   THEN Response(500, <<"Error processing batch match: ", made.raised>>, None)
                   ELSE Response(200, <<>>, made.value) :
            result \in { match_batch(self, request.candidates, request.job) } } : TRUE

\* whether match_batch_candidates gets as far as calling engine.match_batch
match_batch_candidates_invokes(request) ==
    ~(Len(request.candidates) > MaxCandidatesPerBatch)

(***************************************************************************)
(* The requests the model exercises.  A candidate or job is what the       *)
(* schema makes of a raw request body.                                     *)
(***************************************************************************)
Whole(k) == Q(k, 1)

\* the candidate and the job of the worked example: skills {python, react, sql},
\* 5 years; job {python, react, postgresql}, 5 years, no location
RawCandidate ==
    [ id |-> "c1", name |-> "Ana", skills |-> << "python", "react", "sql" >>,
      experience_years |-> Whole(5), experience |-> <<>>, education |-> <<>>,
      summary |-> None, location |-> None ]

RawJob ==
    [ id |-> "j1", title |-> "Backend Developer",
      description |-> "Buscamos desarrollador Python",
      skills |-> << "python", "react", "postgresql" >>, requirements |-> <<>>,
      location |-> None, min_experience_years |-> Some(Whole(5)) ]

CandidateSkillLists ==
    { <<>>, << "python", "react", "sql" >>, << "Python", " SQL " >>,
      << "python", "react", "postgresql" >>, << "sql" >>,
      << "postgresql", "PostgreSQL" >>, << "react", "mysql", "django" >> }

JobSkillLists ==
    { <<>>, << "python", "react", "postgresql" >>, << " Python" >>,
      << "sql", "postgresql", "sql" >>, << " " >> }

EducationLists ==
    { <<>>,
      << [degree |-> "Bachelor", institution |-> "MIT", field |-> Some("Computer Science")] >>,
      << [degree |-> "Licenciatura", institution |-> "UNAM", field |-> None],
         [degree |-> "Master", institution |-> "UPM", field |-> Some("Data")] >> }

RequirementLists ==
    { <<>>, << "5 años de experiencia", "Inglés intermedio" >>,
      << "Bachelor Degree in Computer Science" >>,
      << "Inglés", "Título universitario" >> }

Summaries == { None, Some(""), Some("Desarrollador full-stack") }

ExperienceLists ==
    { <<>>,
      << [company |-> "Acme", position |-> "Developer", description |-> None] >> }

CandidateLocations == { None, Some("Madrid"), Some(" madrid, spain "), Some("Bogota") }

JobLocations ==
    { None, Some(""), Some("Madrid"), Some("Madrid, Spain"), Some("Remoto o Lima"),
      Some("Lima") }

CandidateYears == { Whole(k) : k \in 0..MaxYears }

JobMinYears == { None } \cup { Some(Whole(k)) : k \in (-2)..MaxMinYears }

\* the objects the schemas accept among a set of raw bodies
Accepted(outcomes) == { Get(o.value) : o \in { x \in outcomes : x.raised = "" } }

Candidates(raws) == Accepted({ CandidateSchema(r) : r \in raws })
Jobs(raws) == Accepted({ JobSchema(r) : r \in raws })

SkillsCandidates == Candidates({ [RawCandidate EXCEPT !.skills = s] : s \in CandidateSkillLists })
SkillsJobs == Jobs({ [RawJob EXCEPT !.skills = s] : s \in JobSkillLists })

ExperienceCandidates ==
    Candidates({ [RawCandidate EXCEPT !.experience_years = y] :
                    y \in CandidateYears \cup { Whole(-1) } })
ExperienceJobs == Jobs({ [RawJob EXCEPT !.min_experience_years = y] : y \in JobMinYears })

EducationCandidates == Candidates({ [RawCandidate EXCEPT !.education = e] : e \in EducationLists })
EducationJobs == Jobs({ [RawJob EXCEPT !.requirements = r] : r \in RequirementLists })

SemanticCandidates ==
    Candidates({ [RawCandidate EXCEPT !.summary = s, !.experience = e] :
                    s \in Summaries, e \in ExperienceLists })
SemanticJobs ==
    Jobs({ [RawJob EXCEPT !.requirements = r, !.title = t, !.description = t] :
              r \in { <<>>, << "5 años de experiencia", "Inglés intermedio" >> },
              t \in { "", "Backend Developer" } })

LocationCandidates == Candidates({ [RawCandidate EXCEPT !.location = l] : l \in CandidateLocations })
LocationJobs == Jobs({ [RawJob EXCEPT !.location = l] : l \in JobLocations })

SingleCandidates ==
    Candidates({ [RawCandidate EXCEPT !.summary = s, !.education = e,
                                      !.experience_years = y, !.location = l] :
                    s \in { None, Some("Desarrollador full-stack") },
                    e \in { <<>>, << [degree |-> "Bachelor", institution |-> "MIT",
                                      field |-> Some("Computer Science")] >> },
                    y \in { Whole(0), Whole(5) },
                    l \in { None, Some("Madrid") } })

SingleJobs ==
    Jobs({ [RawJob EXCEPT !.requirements = r, !.min_experience_years = y, !.location = l] :
              r \in { <<>>, << "5 años de experiencia", "Inglés intermedio" >>,
                      << "Bachelor Degree in Computer Science" >> },
              y \in { None, Some(Whole(-1)), Some(Whole(5)) },
              l \in { None, Some("Lima") } })

BatchCandidates ==
    Candidates({ RawCandidate,
                 [RawCandidate EXCEPT !.id = "c2", !.name = "Luis", !.skills = << "sql" >>,
                                      !.experience_years = Whole(2)],
                 [RawCandidate EXCEPT !.id = "c3", !.name = "Eva"] })

Batches == UNION { [1..n -> BatchCandidates] : n \in 0..MaxBatch }

ScoreValues == { Zero, Q(1, 2), One }

Breakdowns ==
    Accepted({ MatchBreakdown(s, e, d, m, l) :
                 s \in ScoreValues, e \in ScoreValues, d \in ScoreValues,
                 m \in ScoreValues, l \in { None, Some(Zero), Some(One) } })

\* the bodies posted to /api/match/single
SingleBodies ==
    { [candidate |-> c, job |-> j] :
        c \in { RawCandidate,
                [RawCandidate EXCEPT !.summary = Some("Desarrollador full-stack")],
                [RawCandidate EXCEPT !.skills = << "python", "react", "postgresql" >>],
                [RawCandidate EXCEPT !.experience_years = Whole(-1)] },
        j \in { RawJob, [RawJob EXCEPT !.min_experience_years = Some(Whole(-1))] } }

\* the bodies posted to /api/match/explain
ExplainBodies ==
    { [candidate |-> b.candidate, job |-> b.job, include_suggestions |-> i] :
        b \in SingleBodies, i \in BOOLEAN }

\* n candidates with the ids "1" .. "n"
Numbered(n) == [i \in 1..n |-> [RawCandidate EXCEPT !.id = ToString(i), !.name = "N"]]

\* the bodies posted to /api/match/batch: no candidate, one, three, a repeated
\* id, a candidate the schema rejects, exactly the cap, one more than the cap,
\* and more than the cap with a repeated id
BatchBodies ==
    { [candidates |-> cs, job |-> RawJob] :
        cs \in { <<>>,
                 << RawCandidate >>,
                 << RawCandidate,
                    [RawCandidate EXCEPT !.id = "c2", !.name = "Luis", !.skills = << "sql" >>],
                    [RawCandidate EXCEPT !.id = "c3", !.name = "Eva"] >>,
                 << RawCandidate, [RawCandidate EXCEPT !.name = "Eva"] >>,
                 << RawCandidate, [RawCandidate EXCEPT !.id = "c2", !.experience_years = Whole(-1)] >>,
                 Numbered(MaxCandidatesPerBatch),
                 Numbered(MaxCandidatesPerBatch + 1),
                 Numbered(MaxCandidatesPerBatch) \o << RawCandidate, RawCandidate >> } }

(***************************************************************************)
(* The process: configuration, the engine singleton, the engine's methods. *)
(***************************************************************************)
Idle == [op |-> "idle"]

Init ==
    /\ phase = "boot"
    /\ env \in WeightEnvs
    /\ settings = None
    /\ validations = 0
    /\ seed \in 0..MaxSeed
    /\ hashseed \in 0..MaxHashSeed
    /\ up = TRUE
    /\ engine = None
    /\ ai_matcher = None
    /\ constructed = [engines |-> 0, matchers |-> 0, loads |-> 0]
    /\ call = Idle

\* importing app.core.config: settings = Settings(), then the weight check
LoadConfig ==
    /\ phase = "boot"
    /\ validations' = validations + 1
    /\ IF validate_weights(Settings(env))
       THEN phase' = "configured" /\ settings' = Some(Settings(env))
       ELSE phase' = "ValueError" /\ settings' = None
    /\ UNCHANGED <<env, seed, hashseed, up, engine, ai_matcher, constructed, call>>

\* the globals become those a call left
Assign(g) ==
    /\ engine' = g.engine
    /\ ai_matcher' = g.ai_matcher
    /\ constructed' = g.constructed

\* get_matching_engine(): the singleton, created on first use
get_matching_engine ==
    /\ phase = "configured"
    /\ call = Idle
    /\ engine = None
    /\ Assign(GetMatchingEngine(Globals))
    /\ UNCHANGED <<phase, env, settings, validations, seed, hashseed, up, call>>

Ready == phase = "configured" /\ engine # None /\ call = Idle

\* one calculator is called: its result, or the failure of the embedding model
Invoke(op, candidate, job, encodes, result) ==
    /\ call' = [op |-> op, candidate |-> candidate, job |-> job, encodes |-> encodes,
                raised |-> IF Fails(encodes) THEN ProviderFailure ELSE "",
                result |-> IF Fails(encodes) THEN None ELSE result]
    /\ UNCHANGED <<phase, env, settings, validations, seed, hashseed, up, engine, ai_matcher,
                       constructed>>

CalculateSkillsMatch ==
    /\ Ready
    /\ \E c \in SkillsCandidates, j \in SkillsJobs :
          Invoke("calculate_skills_match", c, j,
                 calculate_skills_match_encodes(Get(engine), c, j),
                 calculate_skills_match(Get(engine), c, j))

CalculateExperienceMatch ==
    /\ Ready
    /\ \E c \in ExperienceCandidates, j \in ExperienceJobs :
          Invoke("calculate_experience_match", c, j, 0,
                 calculate_experience_match(Get(engine), c, j))

CalculateEducationMatch ==
    /\ Ready
    /\ \E c \in EducationCandidates, j \in EducationJobs :
          Invoke("calculate_education_match", c, j,
                 calculate_education_match_encodes(Get(engine), c, j),
                 calculate_education_match(Get(engine), c, j))

CalculateSemanticMatch ==
    /\ Ready
    /\ \E c \in SemanticCandidates, j \in SemanticJobs :
          Invoke("calculate_semantic_match", c, j,
                 calculate_semantic_match_encodes(Get(engine), c, j),
                 calculate_semantic_match(Get(engine), c, j))

CalculateLocationMatch ==
    /\ Ready
    /\ \E c \in LocationCandidates, j \in LocationJobs :
          Invoke("calculate_location_match", c, j,
                 calculate_location_match_encodes(Get(engine), c, j),
                 calculate_location_match(Get(engine), c, j))

CalculateOverallScore ==
    /\ Ready
    /\ \E b \in Breakdowns :
          /\ call' = [op |-> "calculate_overall_score", breakdown |-> b,
                      result |-> calculate_overall_score(Get(engine), b)]
          /\ UNCHANGED <<phase, env, settings, validations, seed, hashseed, up, engine, ai_matcher,
                       constructed>>

\* the scores classified: the ends, the middle and the configured thresholds
QualityScores == ScoreValues \cup { Q(3, 10), Q(3, 5), Q(4, 5) }

DetermineMatchQuality ==
    /\ Ready
    /\ \E s \in QualityScores :
          /\ call' = [op |-> "determine_match_quality", score |-> s,
                      result |-> determine_match_quality(Get(engine), s)]
          /\ UNCHANGED <<phase, env, settings, validations, seed, hashseed, up, engine, ai_matcher,
                       constructed>>

\* the breakdowns, jobs and missing skills generate_recommendations is given:
\* sub-scores at and beside its thresholds 0.7 and 0.6
RecommendationBreakdowns ==
    Accepted({ MatchBreakdown(One, e, d, m, None) :
                 e \in { Q(1, 2), Q(7, 10), One },
                 d \in { Q(1, 2), Q(6, 10) },
                 m \in { Q(1, 2), Q(6, 10) } })

RecommendationJobs ==
    Jobs({ [RawJob EXCEPT !.min_experience_years = y] :
              y \in { None, Some(Whole(0)), Some(Whole(5)) } })

MissingSkillLists ==
    { <<>>, << "postgresql" >>, << "postgresql", "docker", "aws", "kafka" >> }

GenerateRecommendations ==
    /\ Ready
    /\ \E c \in Candidates({ RawCandidate }), j \in RecommendationJobs,
          b \in RecommendationBreakdowns, missing \in MissingSkillLists :
          /\ call' = [op |-> "generate_recommendations", candidate |-> c, job |-> j,
                      breakdown |-> b, missing_skills |-> missing,
                      result |-> generate_recommendations(Get(engine), c, j, b, missing)]
          /\ UNCHANGED <<phase, env, settings, validations, seed, hashseed, up, engine, ai_matcher,
                       constructed>>

\* match_single; the sub-scores and the overall score it computed on the way are
\* kept beside its outcome (overall is None when the breakdown was rejected,
\* both are None when the embedding model failed in a calculator)
MatchSingle ==
    /\ Ready
    /\ \E c \in SingleCandidates, j \in SingleJobs :
          \E encodes \in { match_single_encodes(Get(engine), c, j) } :
             /\ IF Fails(encodes)
                THEN call' = [op |-> "match_single", candidate |-> c, job |-> j,
                              encodes |-> encodes, scores |-> None, overall |-> None,
                              result |-> Raised(ProviderFailure),
                              after |-> match_single_leaves(Get(engine), c, j)]
                ELSE \E scores \in { match_single_scores(Get(engine), c, j) } :
                        call' = [op |-> "match_single", candidate |-> c, job |-> j,
                                 encodes |-> encodes, scores |-> Some(scores),
                                 overall |-> match_single_overall(Get(engine), scores),
                                 result |-> match_single_rest(Get(engine), c, j, scores),
                                 after |-> match_single_leaves(Get(engine), c, j)]
             /\ UNCHANGED <<phase, env, settings, validations, seed, hashseed, up, engine, ai_matcher,
                       constructed>>

MatchBatch ==
    /\ Ready
    /\ \E cs \in Batches, j \in Jobs({ RawJob }) :
          /\ call' = [op |-> "match_batch", candidates |-> cs, job |-> j,
                      encodes |-> match_batch_encodes(Get(engine), cs, j, 1),
                      result |-> match_batch(Get(engine), cs, j),
                      after |-> match_batch_leaves(Get(engine), cs, j)]
          /\ UNCHANGED <<phase, env, settings, validations, seed, hashseed, up, engine, ai_matcher,
                       constructed>>

\* get_matching_engine() inside a route: the singleton, created if there is none
EngineOf(existing) == Get(GetMatchingEngine([Globals EXCEPT !.engine = existing]).engine)

\* POST /api/match/single
PostSingle ==
    /\ phase = "configured"
    /\ call = Idle
    /\ \E raw \in SingleBodies :
          \E request \in { SingleMatchRequest(raw) } :
             IF request.raised # ""
             THEN /\ call' = [op |-> "POST /api/match/single", request |-> raw,
                              invoked |-> FALSE, encodes |-> 0, response |-> Unprocessable]
                  /\ UNCHANGED <<engine, ai_matcher, constructed>>
             ELSE /\ Assign(GetMatchingEngine(Globals))
                  /\ \E response \in { match_single_candidate(EngineOf(engine),
                                                                Get(request.value)) } :
                        call' = [op |-> "POST /api/match/single", request |-> raw,
                                 invoked |-> TRUE,
                                 encodes |-> match_single_encodes(EngineOf(engine),
                                                 Get(request.value).candidate,
                                                 Get(request.value).job),
                                 response |-> response]
    /\ UNCHANGED <<phase, env, settings, validations, seed, hashseed, up>>

\* POST /api/match/explain
PostExplain ==
    /\ phase = "configured"
    /\ call = Idle
    /\ \E raw \in ExplainBodies :
          \E request \in { ExplainMatchRequest(raw) } :
             IF request.raised # ""
             THEN /\ call' = [op |-> "POST /api/match/explain", request |-> raw,
                              invoked |-> FALSE, encodes |-> 0, response |-> Unprocessable]
                  /\ UNCHANGED <<engine, ai_matcher, constructed>>
             ELSE /\ Assign(GetMatchingEngine(Globals))
                  /\ \E response \in { explain_match(EngineOf(engine), Get(request.value)) } :
                        call' = [op |-> "POST /api/match/explain", request |-> raw,
                                 invoked |-> TRUE,
                                 encodes |-> match_single_encodes(EngineOf(engine),
                                                 Get(request.value).candidate,
                                                 Get(request.value).job),
                                 response |-> response]
    /\ UNCHANGED <<phase, env, settings, validations, seed, hashseed, up>>

\* POST /api/match/batch; invoked tells whether engine.match_batch was called
PostBatch ==
    /\ phase = "configured"
    /\ call = Idle
    /\ \E raw \in BatchBodies :
          \E request \in { BatchMatchRequest(raw) } :
             IF request.raised # ""
             THEN /\ call' = [op |-> "POST /api/match/batch", request |-> raw,
                              invoked |-> FALSE, encodes |-> 0, response |-> Unprocessable]
                  /\ UNCHANGED <<engine, ai_matcher, constructed>>
             ELSE /\ Assign(IF match_batch_candidates_invokes(Get(request.value))
                            THEN GetMatchingEngine(Globals) ELSE Globals)
                  /\ \E response \in { match_batch_candidates(EngineOf(engine),
                                                                Get(request.value)) } :
                        call' = [op |-> "POST /api/match/batch", request |-> raw,
                                 invoked |-> match_batch_candidates_invokes(Get(request.value)),
                                 encodes |->
                                     IF match_batch_candidates_invokes(Get(request.value))
                                     THEN match_batch_encodes(EngineOf(engine),
                                              Get(request.value).candidates,
                                              Get(request.value).job, 1)
                                     ELSE 0,
                                 response |-> response]
    /\ UNCHANGED <<phase, env, settings, validations, seed, hashseed, up>>

\* GET /health: get_ai_matcher(settings.AI_MODEL), then the report
GetHealth ==
    /\ phase = "configured"
    /\ call = Idle
    /\ Assign(get_ai_matcher(Globals, get_settings.AI_MODEL))
    /\ call' = [op |-> "GET /health", response |-> health_check(get_settings)]
    /\ UNCHANGED <<phase, env, settings, validations, seed, hashseed, up>>

\* the model names get_ai_matcher is called with: its default and another
ModelNames == { "sentence-transformers/all-MiniLM-L6-v2", "paraphrase-MiniLM-L3-v2" }

\* get_ai_matcher(model_name), called on its own
GetAiMatcher ==
    /\ phase = "configured"
    /\ call = Idle
    /\ \E model_name \in ModelNames :
          \E g \in { get_ai_matcher(Globals, model_name) } :
             /\ Assign(g)
             /\ call' = [op |-> "get_ai_matcher", model_name |-> model_name,
                         result |-> Get(g.ai_matcher)]
    /\ UNCHANGED <<phase, env, settings, validations, seed, hashseed, up>>

\* the inference backend of the loaded model stops answering: every
\* self.model.encode raises until it recovers
BackendFails ==
    /\ Ready
    /\ up
    /\ up' = FALSE
    /\ UNCHANGED <<phase, env, settings, validations, seed, hashseed, engine, ai_matcher,
                 constructed, call>>

BackendRecovers ==
    /\ Ready
    /\ ~up
    /\ up' = TRUE
    /\ UNCHANGED <<phase, env, settings, validations, seed, hashseed, engine, ai_matcher,
                 constructed, call>>

\* the method returns (or its exception reaches the caller)
Return ==
    /\ call # Idle
    /\ call' = Idle
    /\ UNCHANGED <<phase, env, settings, validations, seed, hashseed, up, engine, ai_matcher,
                       constructed>>

Next ==
    \/ LoadConfig
    \/ get_matching_engine
    \/ CalculateSkillsMatch
    \/ CalculateExperienceMatch
    \/ CalculateEducationMatch
    \/ CalculateSemanticMatch
    \/ CalculateLocationMatch
    \/ CalculateOverallScore
    \/ DetermineMatchQuality
    \/ GenerateRecommendations
    \/ MatchSingle
    \/ MatchBatch
    \/ PostSingle
    \/ PostBatch
    \/ PostExplain
    \/ GetHealth
    \/ GetAiMatcher
    \/ BackendFails
    \/ BackendRecovers
    \/ Return

Spec == Init /\ [][Next]_vars


(***************************************************************************)
(* Properties                                                              *)
(***************************************************************************)
InUnitOpt(x) == IsNone(x) \/ InUnit(Get(x))

Normalized(skills) == {Strip(Lower(skills[i])) : i \in DOMAIN skills}

\* C1 (as stated; the code violates it): whenever match_single has computed its
\* five sub-scores for a candidate and a job the schemas accept, each of
\* skills, experience, education, semantic and location lies in [0, 1].
C1_SubScoresInUnit ==
    (call.op = "match_single" /\ ~IsNone(call.scores)) =>
        /\ InUnit(Get(call.scores)[1][1])
        /\ InUnit(Get(call.scores)[2])
        /\ InUnit(Get(call.scores)[3])
        /\ InUnit(Get(call.scores)[4])
        /\ InUnit(Get(call.scores)[5])

\* C2 (as stated; the code violates it): for a breakdown whose sub-scores lie
\* in [0, 1], location present or absent, and weights that passed
\* validate_weights, calculate_overall_score returns a value in [0, 1].
C2_OverallInUnit ==
    (/\ call.op = "calculate_overall_score"
     /\ InUnit(call.breakdown.skills_match)
     /\ InUnit(call.breakdown.experience_match)
     /\ InUnit(call.breakdown.education_match)
     /\ InUnit(call.breakdown.semantic_match)
     /\ InUnitOpt(call.breakdown.location_match)
     /\ validate_weights(Get(engine).settings))
    => InUnit(call.result)

\* the sum of the four weights of the environment, in thousandths
EnvTotal ==
    env.SKILLS_WEIGHT + env.EXPERIENCE_WEIGHT + env.SEMANTIC_WEIGHT + env.EDUCATION_WEIGHT

\* C3 (amended): loading the configuration fails exactly when the sum of the
\* four weights differs from 1.0 by 0.01 or more (a sum of exactly 0.99 or 1.01
\* fails); after a failure no engine exists and no method runs; an engine
\* exists or a method runs only after a successful load; and the weight check
\* runs once, at load, however many requests follow.
C3_WeightCheckAtStartup ==
    /\ phase = "ValueError" => (Abs(EnvTotal - 1000) >= 10 /\ engine = None /\ call = Idle)
    /\ phase = "configured" => Abs(EnvTotal - 1000) < 10
    /\ phase = "boot" => (engine = None /\ call = Idle /\ validations = 0)
    /\ phase # "boot" => validations = 1

\* C3 witness: a sum of exactly 1.01 has been rejected at load
C3_BoundaryRejected ==
    phase = "ValueError" /\ EnvTotal = 1010 /\ validations = 1 /\ engine = None

\* C3 (as stated): loading fails only for a sum outside 1.0 +/- 0.01, so a sum
\* within the tolerance, its ends included, loads.
C3_WithinToleranceLoads ==
    phase = "ValueError" => Abs(EnvTotal - 1000) > 10


\* the ranked results of a match_batch that returned
Ranked == Get(call.result.value)[1]

\* C4 (as stated; the code violates it): for a batch of N candidates
\* match_batch returns one result per input candidate, the ranks of the
\* returned list are 1, 2, ..., N in list order, and a result with a smaller
\* rank never has a lower compatibility score than one with a larger rank.
C4_RanksAndOrder ==
    call.op = "match_batch" =>
        /\ call.result.raised = ""
        /\ Len(Ranked) = Len(call.candidates)
        /\ \A i \in DOMAIN call.candidates :
              Cardinality({k \in DOMAIN Ranked :
                              Ranked[k].candidate_id = call.candidates[i].id}) >= 1
        /\ \A k \in DOMAIN Ranked : Ranked[k].rank = k
        /\ \A k, m \in DOMAIN Ranked :
              k < m => QLe(Ranked[m].compatibility_score, Ranked[k].compatibility_score)

\* the positions of the returned list that hold input candidate i
RanksOf(i) ==
    {Ranked[k].rank : k \in {m \in DOMAIN Ranked :
                                Ranked[m].candidate_id = call.candidates[i].id}}

\* C5 (as stated; the code violates it): when two candidates of a batch
\* receive equal compatibility scores, match_batch gives the one that comes
\* earlier in the input list the smaller rank.
C5_TieKeepsInputOrder ==
    (call.op = "match_batch" /\ Len(call.candidates) >= 2) =>
        /\ call.result.raised = ""
        /\ \A i, k \in DOMAIN call.candidates :
              (/\ i < k
               /\ call.candidates[i].id # call.candidates[k].id
               /\ \E a \in DOMAIN Ranked, b \in DOMAIN Ranked :
                     /\ Ranked[a].candidate_id = call.candidates[i].id
                     /\ Ranked[b].candidate_id = call.candidates[k].id
                     /\ Ranked[a].compatibility_score = Ranked[b].compatibility_score)
              => \A x \in RanksOf(i), y \in RanksOf(k) : x < y

\* C6: the matched and the missing list calculate_skills_match returns have no
\* element in common, and every element of either is one of the job's
\* normalized required skills, matches of the semantic fallback included.
C6_MatchedMissingDisjointJobSkills ==
    (call.op = "calculate_skills_match" /\ call.raised = "") =>
        /\ Range(call.result[2]) \cap Range(call.result[3]) = {}
        /\ Range(call.result[2]) \subseteq Normalized(call.job.skills)
        /\ Range(call.result[3]) \subseteq Normalized(call.job.skills)

\* C6 witness: the semantic fallback has moved a skill the candidate lacks
\* from missing to matched, and another skill is still missing
C6_SemanticFallbackMatched ==
    /\ call.op = "calculate_skills_match"
    /\ call.raised = ""
    /\ Range(call.result[2]) \ Normalized(call.candidate.skills) # {}
    /\ call.result[3] # <<>>

\* C7: for a job with no required skills calculate_skills_match returns score
\* 1.0, an empty matched list and an empty missing list, for every candidate.
C7_NoJobSkills ==
    (call.op = "calculate_skills_match" /\ call.job.skills = <<>>) =>
        call.result = << One, <<>>, <<>> >>

\* C7 witness: a candidate with skills was matched against a job with none
C7_NoJobSkillsSomeCandidateSkills ==
    /\ call.op = "calculate_skills_match"
    /\ call.job.skills = <<>>
    /\ call.candidate.skills # <<>>
    /\ call.result[1] = One


\* C9 (as stated; the code violates it): calculate_experience_match returns
\* exactly 1.0 when the job's min_experience_years is absent or zero and when
\* the candidate's years c are at least the required years r, and c / r when
\* c < r.
C9_ExperienceScore ==
    call.op = "calculate_experience_match" =>
        LET c == call.candidate.experience_years
            r == call.job.min_experience_years
        IN  IF IsNone(r) \/ Get(r) = Zero THEN call.result = One
            ELSE IF QLe(Get(r), c) THEN call.result = One
            ELSE call.result = QDiv(c, Get(r))

\* the worked example: skills {python, react, sql} and 5 years against a job
\* requiring {python, react, postgresql} and 5 years, with no location and no
\* requirement strings, under the default weights
ExampleMatch ==
    /\ call.op = "match_single"
    /\ call.result.raised # ProviderFailure
    /\ env = DefaultWeights
    /\ call.candidate.skills = << "python", "react", "sql" >>
    /\ call.candidate.experience_years = Whole(5)
    /\ call.job.skills = << "python", "react", "postgresql" >>
    /\ call.job.min_experience_years = Some(Whole(5))
    /\ IsNone(call.job.location)
    /\ call.job.requirements = <<>>

\* the share of the job's skills the candidate has exactly
ExactOverlap ==
    Q(Cardinality(Normalized(call.candidate.skills) \cap Normalized(call.job.skills)),
      Cardinality(Normalized(call.job.skills)))

\* C10 (amended): in the worked example the exact skill overlap is 2/3 (both
\* python and react are matched), the experience sub-score is exactly 1.0, and
\* the overall score match_single computes is at least 161/300 (about 0.537)
\* and strictly below 1.0.
C10_WorkedExample ==
    ExampleMatch =>
        /\ ExactOverlap = Q(2, 3)
        /\ {"python", "react"} \subseteq Range(Get(call.scores)[1][2])
        /\ Get(call.scores)[2] = One
        /\ ~IsNone(call.overall)
        /\ QLe(Q(161, 300), Get(call.overall))
        /\ QLt(Get(call.overall), One)

\* C10 witness: the worked example with every similarity of the provider in
\* [0, 1] and an overall score below 0.667
C10_ExampleBelowTwoThirds ==
    /\ ExampleMatch
    /\ IsNone(call.candidate.summary)
    /\ \A i \in DOMAIN call.candidate.skills :
          InUnit(Cosine(seed, "postgresql", call.candidate.skills[i]))
    /\ ~IsNone(call.overall)
    /\ QLt(Get(call.overall), Q(667, 1000))

\* C10 (as stated): in the worked example the exact skill overlap is 2/3, the
\* experience sub-score is exactly 1.0 and the aggregate score is strictly
\* between 0.667 and 1.0.
C10_AggregateAboveTwoThirds ==
    ExampleMatch =>
        /\ ExactOverlap = Q(2, 3)
        /\ Get(call.scores)[2] = One
        /\ ~IsNone(call.overall)
        /\ QLt(Q(667, 1000), Get(call.overall))
        /\ QLt(Get(call.overall), One)


Calculators ==
    { "calculate_skills_match", "calculate_experience_match", "calculate_education_match",
      "calculate_semantic_match", "calculate_location_match" }

\* the embedding model is failing and this call of the engine or of a route
\* reached it
ProviderFailedInCall ==
    /\ ~up
    /\ call.op \in Calculators \cup { "match_single", "match_batch",
                                       "POST /api/match/single", "POST /api/match/batch" }
    /\ call.encodes > 0

DistinctIds(candidates) ==
    \A i, k \in DOMAIN candidates : i # k => candidates[i].id # candidates[k].id

WellFormed(raw) ==
    /\ \A i \in DOMAIN raw.candidates : CandidateSchema(raw.candidates[i]).raised = ""
    /\ JobSchema(raw.job).raised = ""

C12_BatchValidatedBeforeEngine ==
    /\ call.op = "POST /api/match/batch" =>
          LET cs == call.request.candidates
          IN  /\ (Len(cs) = 0 \/ ~DistinctIds(cs) \/ Len(cs) > 100) =>
                    /\ ~call.invoked
                    /\ call.encodes = 0
                    /\ call.response.status_code \in { 400, 422 }
                    /\ call.response.body = None
              /\ (WellFormed(call.request) /\ Len(cs) \in 1..100 /\ DistinctIds(cs)) =>
                    /\ call.invoked
                    /\ call.response.status_code \in { 200, 500 }
    /\ (call.op = "match_batch" /\ ~DistinctIds(call.candidates)) =>
          /\ call.result.raised # "ValidationError"
          /\ call.encodes >= match_single_encodes(Get(engine), call.candidates[1], call.job)

\* a request with a repeated candidate id was answered 422 without a match
C12_DuplicateIdsRejected ==
    /\ call.op = "POST /api/match/batch"
    /\ Len(call.request.candidates) \in 1..100
    /\ ~DistinctIds(call.request.candidates)
    /\ WellFormed(call.request)
    /\ call.response.status_code = 422
    /\ ~call.invoked


(***************************************************************************)
(* C13 (as stated; the code violates it): match_batch returns as top       *)
(* skills at most 10 distinct skills, each from some candidate's matched   *)
(* skills, by descending number of occurrences over all candidates'        *)
(* matched-skill lists, skills of equal count in the order in which they   *)
(* are first seen scanning the candidates in input order, and no omitted   *)
(* skill occurs more often than a returned one.                            *)
(***************************************************************************)
TopSkills == Get(call.result.value)[3]

\* the matched skills of the batch, candidate after candidate in input order
ScannedSkills ==
    Concat([i \in DOMAIN call.candidates |->
               LET k == CHOOSE k \in DOMAIN Ranked :
                           Ranked[k].candidate_id = call.candidates[i].id
               IN  Ranked[k].matched_skills])

Occurrences(skill) == Cardinality({i \in DOMAIN ScannedSkills : ScannedSkills[i] = skill})

FirstPosition(skill) == CHOOSE i \in DOMAIN ScannedSkills :
                       /\ ScannedSkills[i] = skill
                       /\ \A k \in 1..(i - 1) : ScannedSkills[k] # skill

C13_TopSkills ==
    (call.op = "match_batch" /\ up /\ Len(call.candidates) >= 1) =>
        /\ call.result.raised = ""
        /\ Len(TopSkills) <= 10
        /\ \A i, k \in DOMAIN TopSkills : i # k => TopSkills[i] # TopSkills[k]
        /\ Range(TopSkills) \subseteq Range(ScannedSkills)
        /\ \A i, k \in DOMAIN TopSkills :
              i < k => \/ Occurrences(TopSkills[i]) > Occurrences(TopSkills[k])
                       \/ /\ Occurrences(TopSkills[i]) = Occurrences(TopSkills[k])
                          /\ FirstPosition(TopSkills[i]) < FirstPosition(TopSkills[k])
        /\ \A omitted \in Range(ScannedSkills) \ Range(TopSkills) :
              \A i \in DOMAIN TopSkills : Occurrences(omitted) <= Occurrences(TopSkills[i])


(***************************************************************************)
(* C14 (as stated; the code violates it): determine_match_quality answers  *)
(* 'excellent' for a score at or above the excellent threshold, 'good' for *)
(* one at or above the good threshold and below the excellent one,         *)
(* 'medium' for one at or above the minimum threshold and below the good   *)
(* one, and 'low' below the minimum; a score equal to a threshold gets the *)
(* higher tier.  The thresholds are the configured ones of the settings.   *)
(***************************************************************************)
QualityTier(score, min, good, excellent) ==
    IF QLe(excellent, score) THEN "excellent"
    ELSE IF QLe(good, score) THEN "good"
    ELSE IF QLe(min, score) THEN "medium"
    ELSE "low"

C14_QualityTiers ==
    call.op = "determine_match_quality" =>
        call.result = Returned(QualityTier(call.score,
                                           Get(engine).settings.MIN_MATCH_SCORE,
                                           Get(engine).settings.GOOD_MATCH_SCORE,
                                           Get(engine).settings.EXCELLENT_MATCH_SCORE))


(***************************************************************************)
(* C15: calculate_overall_score returns skills x W_skills + experience x   *)
(* W_experience + education x W_education + semantic x W_semantic for a    *)
(* breakdown without a location sub-score, and min(1, that sum + 0.05 x    *)
(* location) for one with it; the weights are the four of the environment  *)
(* and none of them multiplies the location term.                          *)
(***************************************************************************)
Same(a, b) == QLe(a, b) /\ QLe(b, a)

\* the sum of the four weighted sub-scores, each weight in thousandths
WeightedSum(b) ==
    QSum(<< QMul(b.skills_match, Q(env.SKILLS_WEIGHT, 1000)),
            QMul(b.experience_match, Q(env.EXPERIENCE_WEIGHT, 1000)),
            QMul(b.education_match, Q(env.EDUCATION_WEIGHT, 1000)),
            QMul(b.semantic_match, Q(env.SEMANTIC_WEIGHT, 1000)) >>)

C15_OverallScoreFormula ==
    call.op = "calculate_overall_score" =>
        IF IsNone(call.breakdown.location_match)
        THEN Same(call.result, WeightedSum(call.breakdown))
        ELSE LET boosted == QAdd(WeightedSum(call.breakdown),
                                 QMul(Q(1, 20), Get(call.breakdown.location_match)))
             IN  IF QLe(One, boosted) THEN Same(call.result, One)
                 ELSE Same(call.result, boosted)

\* a breakdown with location 1.0 scored its weighted sum plus 0.05, below 1
C15_LocationBoostAdded ==
    /\ call.op = "calculate_overall_score"
    /\ call.breakdown.location_match = Some(One)
    /\ Same(call.result, QAdd(WeightedSum(call.breakdown), Q(1, 20)))
    /\ QLt(call.result, One)
    /\ QLt(Zero, WeightedSum(call.breakdown))


(***************************************************************************)
(* C16: match_single and match_batch leave the engine's configuration, the *)
(* job and the input candidates as they were, the order of the caller's    *)
(* candidate list included, and the engine holds after the call what it    *)
(* held before it: its settings and its provider, nothing of the request.  *)
(***************************************************************************)
EngineCalls == { "match_single", "match_batch" }

ExactlyMissing == Normalized(call.job.skills) \ Normalized(call.candidate.skills)

ExactScore ==
    Q(Cardinality(Normalized(call.job.skills) \cap Normalized(call.candidate.skills)),
      Cardinality(Normalized(call.job.skills)))

\* the best similarity the embedding model gives a job skill over the candidate's skills
BestSimilarity(job_skill) ==
    LET sims == { Cosine(seed, job_skill, s) : s \in Normalized(call.candidate.skills) }
    IN  CHOOSE x \in sims : \A y \in sims : QLe(y, x)

AcceptedMissing == { m \in ExactlyMissing : ~QLt(BestSimilarity(m), Q(7, 10)) }

RECURSIVE SumOfBest(_)
SumOfBest(S) ==
    IF S = {} THEN Zero
    ELSE LET m == CHOOSE m \in S : TRUE
         IN  QAdd(BestSimilarity(m), SumOfBest(S \ {m}))

SemanticScore ==
    IF AcceptedMissing = {} THEN Zero
    ELSE QDiv(SumOfBest(AcceptedMissing), Q(Cardinality(AcceptedMissing), 1))

SemanticFallbackCase ==
    /\ call.op = "calculate_skills_match"
    /\ call.raised = ""
    /\ call.job.skills # <<>>
    /\ ExactlyMissing # {}
    /\ call.candidate.skills # <<>>

C17_SkillsScoreBlend ==
    SemanticFallbackCase =>
        LET blend == QAdd(QMul(Q(7, 10), ExactScore), QMul(Q(3, 10), SemanticScore))
        IN  Same(call.result[1], IF QLe(One, blend) THEN One ELSE blend)

\* a missing skill whose best similarity is exactly 0.7 was accepted and counted
C17_ThresholdSimilarityAccepted ==
    /\ SemanticFallbackCase
    /\ \E m \in ExactlyMissing : Same(BestSimilarity(m), Q(7, 10))
    /\ QLt(Zero, ExactScore)
    /\ QLt(Zero, SemanticScore)
    /\ QLt(SemanticScore, One)


(***************************************************************************)
(* C18: when every required job skill is exactly among the candidate's     *)
(* skills, calculate_skills_match returns the exact score, 1.0, and makes  *)
(* no call to the embedding model; it makes none either when the job has   *)
(* no skills or the candidate has none.  Making no call, it returns its    *)
(* score also while the embedding model is failing.                        *)
(***************************************************************************)
C18_NoProviderCallWhenExact ==
    call.op = "calculate_skills_match" =>
        /\ (call.job.skills # <<>> /\ ExactlyMissing = {}) =>
              /\ call.encodes = 0
              /\ call.raised = ""
              /\ Same(ExactScore, One)
              /\ call.result[1] = One
        /\ (call.job.skills = <<>> \/ call.candidate.skills = <<>>) =>
              /\ call.encodes = 0
              /\ call.raised = ""

\* all job skills exactly present, scored 1.0 while the embedding model is down
C18_AllPresentWhileDown ==
    /\ call.op = "calculate_skills_match"
    /\ ~up
    /\ call.job.skills # <<>>
    /\ ExactlyMissing = {}
    /\ call.encodes = 0
    /\ call.result[1] = One


(***************************************************************************)
(* C19: calculate_education_match returns 0.5 when the candidate has no    *)
(* education entries or the job has no requirement strings; otherwise 1.0  *)
(* when the lower-cased requirement text contains no education keyword;    *)
(* otherwise the similarity the provider gives the concatenated education  *)
(* text and the requirement text, as it is.                                *)
(***************************************************************************)
RequirementText == Lower(Join(" ", call.job.requirements))

HasEducationKeyword ==
    \E k \in DOMAIN edu_keywords : Contains(RequirementText, edu_keywords[k])

EducationTextOf(candidate) ==
    Join(". ", [i \in DOMAIN candidate.education |-> EducationText(candidate.education[i])])

\* what the provider answers for two texts: the cosine, kept within [0, 1]
ProviderSimilarity(a, b) ==
    LET cosine == Cosine(seed, a, b)
    IN  IF QLt(cosine, Zero) THEN Zero ELSE IF QLt(One, cosine) THEN One ELSE cosine

C20_NoEducationPenalized ==
    (/\ call.op = "calculate_education_match"
     /\ call.raised = ""
     /\ call.candidate.education = <<>>
     /\ HasEducationKeyword)
    => call.result = Q(3, 10)


(***************************************************************************)
(* C21: calculate_semantic_match returns the neutral 0.5, without a call   *)
(* to the provider, whenever the candidate text (the summary and one line  *)
(* for each experience entry) is empty or the job text (title,             *)
(* description, joined requirements) is empty; in every other case it      *)
(* returns the provider's similarity of the two texts.                     *)
(***************************************************************************)
CandidateTextOf(candidate) ==
    Join(" ", (IF IsNone(candidate.summary) \/ Get(candidate.summary) = ""
               THEN <<>> ELSE << Get(candidate.summary) >>)
              \o [i \in DOMAIN candidate.experience |->
                    ExperienceText(candidate.experience[i])])

JobTextOf(job) ==
    job.title \o ". " \o job.description \o ". " \o Join(" ", job.requirements)

C21_SemanticScore ==
    call.op = "calculate_semantic_match" =>
        IF CandidateTextOf(call.candidate) = "" \/ JobTextOf(call.job) = ""
        THEN /\ call.encodes = 0
             /\ call.raised = ""
             /\ call.result = Q(1, 2)
        ELSE /\ call.encodes > 0
             /\ call.raised = "" =>
                    Same(call.result, ProviderSimilarity(CandidateTextOf(call.candidate),
                                                         JobTextOf(call.job)))

\* a candidate without summary or experience scored 0.5 while the model is down
C21_NeutralWithoutProvider ==
    /\ call.op = "calculate_semantic_match"
    /\ ~up
    /\ CandidateTextOf(call.candidate) = ""
    /\ call.encodes = 0
    /\ call.result = Q(1, 2)


(***************************************************************************)
(* C22: calculate_location_match returns 1.0 when the job has no location; *)
(* else 0.5 when the candidate has none; and, when both have one and the   *)
(* job's has no remote keyword, 1.0 if the lower-cased, trimmed strings    *)
(* are equal, 0.8 if one contains the other, and otherwise 0.6 times the   *)
(* provider's similarity of the two strings, so at most 0.6.               *)
(***************************************************************************)
NoLocation(x) == IsNone(x.location) \/ Get(x.location) = ""

Trimmed(location) == Strip(Lower(Get(location)))

RemoteJob(job) ==
    /\ ~NoLocation(job)
    /\ \E k \in DOMAIN remote_keywords : Contains(Lower(Get(job.location)), remote_keywords[k])

C22_LocationScore ==
    (call.op = "calculate_location_match" /\ call.raised = "") =>
        IF NoLocation(call.job) THEN call.result = One
        ELSE IF NoLocation(call.candidate) THEN call.result = Q(1, 2)
        ELSE ~RemoteJob(call.job) =>
               LET c == Trimmed(call.candidate.location)
                   j == Trimmed(call.job.location)
               IN  IF c = j THEN call.result = One
                   ELSE IF Contains(c, j) \/ Contains(j, c) THEN call.result = Q(8, 10)
                   ELSE /\ Same(call.result, QMul(Q(6, 10), ProviderSimilarity(c, j)))
                        /\ QLe(call.result, Q(6, 10))

\* two unrelated locations were scored by the provider, above 0 and at most 0.6
C22_ScaledSimilarity ==
    /\ call.op = "calculate_location_match"
    /\ call.raised = ""
    /\ call.encodes > 0
    /\ QLt(Zero, call.result)
    /\ QLe(call.result, Q(6, 10))

(***************************************************************************)
(* C23 (as stated; the code violates it): whenever the job's location      *)
(* contains a remote-work keyword, in any letter case, the location score  *)
(* is 1.0 for every candidate location, a candidate without a location     *)
(* included.                                                               *)
(***************************************************************************)
C23_RemoteJobScoresOne ==
    (call.op = "calculate_location_match" /\ RemoteJob(call.job)) =>
        /\ call.raised = ""
        /\ call.result = One


(***************************************************************************)
(* C25: generate_recommendations always returns a non-empty list: it has   *)
(* the skill-gap suggestion, naming at most the first 3 missing skills,    *)
(* iff a skill is missing; the experience suggestion iff experience < 0.7  *)
(* and the job sets a minimum (present and not zero); the education        *)
(* suggestion iff education < 0.6; the profile-update suggestion iff       *)
(* semantic < 0.6; and it is the single 'profile complete' line iff none   *)
(* of the four triggers.                                                   *)
(***************************************************************************)
StartsWith(text, prefix) ==
    Len(text) >= Len(prefix) /\ SubSeq(text, 1, Len(prefix)) = prefix

Holds(list, prefix) == \E i \in DOMAIN list : StartsWith(list[i], prefix)

SkillGapTriggers == call.missing_skills # <<>>

ExperienceGapTriggers ==
    /\ QLt(call.breakdown.experience_match, Q(7, 10))
    /\ ~IsNone(call.job.min_experience_years)
    /\ Get(call.job.min_experience_years) # Zero

EducationGapTriggers == QLt(call.breakdown.education_match, Q(6, 10))

ProfileGapTriggers == QLt(call.breakdown.semantic_match, Q(6, 10))

C25_Recommendations ==
    call.op = "generate_recommendations" =>
        LET r == call.result
            gap == "Desarrollar habilidades en: "
                       \o Join(", ", SubSeq(call.missing_skills, 1,
                                            IF Len(call.missing_skills) > 3
                                            THEN 3 ELSE Len(call.missing_skills)))
        IN  /\ r # <<>>
            /\ Holds(r, "Desarrollar habilidades en: ") <=> SkillGapTriggers
            /\ \A i \in DOMAIN r :
                  StartsWith(r[i], "Desarrollar habilidades en: ") => r[i] = gap
            /\ Holds(r, "Ganar más experiencia relevante") <=> ExperienceGapTriggers
            /\ Holds(r, "Considerar certificaciones") <=> EducationGapTriggers
            /\ Holds(r, "Actualizar perfil profesional") <=> ProfileGapTriggers
            /\ (r = << "Perfil muy completo, mantener actualizado" >>) <=>
                  ~(\/ SkillGapTriggers \/ ExperienceGapTriggers
                    \/ EducationGapTriggers \/ ProfileGapTriggers)
            /\ Len(r) = (IF SkillGapTriggers THEN 1 ELSE 0)
                         + (IF ExperienceGapTriggers THEN 1 ELSE 0)
                         + (IF EducationGapTriggers THEN 1 ELSE 0)
                         + (IF ProfileGapTriggers THEN 1 ELSE 0)
                         + (IF r = << "Perfil muy completo, mantener actualizado" >>
                            THEN 1 ELSE 0)

\* four skills are missing and the suggestion names three of them
C25_FourMissingThreeNamed ==
    /\ call.op = "generate_recommendations"
    /\ Len(call.missing_skills) = 4
    /\ call.result[1] = "Desarrollar habilidades en: postgresql, docker, aws"
    /\ ExperienceGapTriggers
    /\ Len(call.result) = 2


(***************************************************************************)
(* C24 (as stated; the code violates it): every explain request the        *)
(* schemas accept, with the embedding model answering, gets a response     *)
(* whose strengths and weaknesses are non-empty: strengths has one entry   *)
(* for each triggered rule (skills >= 0.7, experience >= 0.8, semantic >=  *)
(* 0.7, more than 5 matched skills) and the single generic strength        *)
(* exactly when none triggers; weaknesses has one entry for each triggered *)
(* rule (skills < 0.5, experience < 0.6, more than 5 missing skills,       *)
(* education < 0.5) and the single generic line exactly when none does.    *)
(***************************************************************************)
Has(list, text) == \E i \in DOMAIN list : list[i] = text

C24_StrengthsAndWeaknesses ==
    (call.op = "POST /api/match/explain" /\ call.invoked /\ up) =>
        /\ call.response.status_code = 200
        /\ LET body == Get(call.response.body)
               b == body.breakdown
               strengths == body.strengths
               weaknesses == body.weaknesses
           IN  /\ strengths # <<>>
               /\ weaknesses # <<>>
               /\ Has(strengths, "Excelente match de habilidades técnicas")
                     <=> QLe(Q(7, 10), b.skills_match)
               /\ Has(strengths, "Experiencia superior a los requisitos")
                     <=> QLe(Q(8, 10), b.experience_match)
               /\ Has(strengths, "Alto alineamiento con la descripción del puesto")
                     <=> QLe(Q(7, 10), b.semantic_match)
               /\ (strengths = << "Perfil básico adecuado para evaluación" >>)
                     <=> /\ QLt(b.skills_match, Q(7, 10))
                         /\ QLt(b.experience_match, Q(8, 10))
                         /\ QLt(b.semantic_match, Q(7, 10))
                         /\ ~Holds(strengths, "Domina ")
               /\ Has(weaknesses, "Falta de habilidades técnicas clave")
                     <=> QLt(b.skills_match, Q(1, 2))
               /\ Has(weaknesses, "Experiencia por debajo de los requisitos")
                     <=> QLt(b.experience_match, Q(6, 10))
               /\ Has(weaknesses, "Formación académica no alineada con requisitos")
                     <=> QLt(b.education_match, Q(1, 2))
               /\ (weaknesses = << "No se identificaron debilidades significativas" >>)
                     <=> /\ ~QLt(b.skills_match, Q(1, 2))
                         /\ ~QLt(b.experience_match, Q(6, 10))
                         /\ ~QLt(b.education_match, Q(1, 2))
                         /\ ~Holds(weaknesses, "Le faltan ")


\* C26: for a job with at least one required skill, the matched and the missing
\* list calculate_skills_match returns together hold every normalized required
\* skill of the job exactly once and nothing else: the two lists partition the
\* job's skill set and neither has a duplicate.
Listed(result) == result[2] \o result[3]

C26_ListsPartitionJobSkills ==
    (call.op = "calculate_skills_match" /\ call.raised = "" /\ call.job.skills # <<>>) =>
        /\ \A skill \in Normalized(call.job.skills) :
              Cardinality({ i \in DOMAIN Listed(call.result) :
                              Listed(call.result)[i] = skill }) = 1
        /\ Range(Listed(call.result)) \subseteq Normalized(call.job.skills)

\* C26 witness: of three required skills one is matched exactly, one by the
\* semantic fallback and one is still missing
C26_ExactSemanticAndMissing ==
    /\ call.op = "calculate_skills_match"
    /\ call.raised = ""
    /\ Cardinality(Normalized(call.job.skills)) = 3
    /\ Range(call.result[2]) \cap Normalized(call.candidate.skills) # {}
    /\ Range(call.result[2]) \ Normalized(call.candidate.skills) # {}
    /\ Len(call.result[3]) = 1

\* C27 (as stated; the code violates it): for a fixed job and a fixed seed of
\* the provider, adding one of the job's required skills to a candidate's
\* skills never lowers the score calculate_skills_match returns.
WithSkill(candidate, skill) == [candidate EXCEPT !.skills = @ \o << skill >>]

C27_AddedSkillNeverLowers ==
    (call.op = "calculate_skills_match" /\ call.raised = "") =>
        \A i \in DOMAIN call.job.skills :
            QLe(call.result[1],
                calculate_skills_match(Get(engine),
                                       WithSkill(call.candidate, call.job.skills[i]),
                                       call.job)[1])


(***************************************************************************)
(* C28 (as stated; the code violates it): match_single, called with the    *)
(* embedding model answering, returns a result whose breakdown holds a     *)
(* location sub-score and whose compatibility score is min(1.0, weighted   *)
(* sum + 0.05 x location): min(1.0, weighted sum + 0.05) for a job with no *)
(* location.                                                               *)
(***************************************************************************)
Boosted(b) == QMin(One, QAdd(WeightedSum(b), QMul(Q(1, 20), Get(b.location_match))))

C28_LocationAlwaysBoosts ==
    (call.op = "match_single" /\ ~Fails(call.encodes)) =>
        /\ call.result.raised = ""
        /\ LET returned == Get(call.result.value)
           IN  /\ ~IsNone(returned.breakdown.location_match)
               /\ Same(returned.compatibility_score, Boosted(returned.breakdown))
               /\ IsNone(call.job.location) =>
                     Same(returned.compatibility_score,
                          QMin(One, QAdd(WeightedSum(returned.breakdown), Q(1, 20))))


(***************************************************************************)
(* C29 (as stated; the code violates it): every configuration value the    *)
(* engine reads is one the settings define.  A constructed engine holds    *)
(* the settings of the process, no call of determine_match_quality or      *)
(* match_single ends in a failed lookup of a setting, and a match_single   *)
(* call that got its sub-scores into a breakdown returns a result with one *)
(* of the four quality tiers.                                              *)
(***************************************************************************)
Tiers == { "excellent", "good", "medium", "low" }

C29_SettingsDefineWhatIsRead ==
    /\ ~IsNone(engine) => Get(engine).settings = Get(settings)
    /\ call.op = "determine_match_quality" => call.result.raised # "AttributeError"
    /\ call.op = "match_single" =>
          /\ call.result.raised # "AttributeError"
          /\ ~IsNone(call.overall) =>
                /\ call.result.raised = ""
                /\ Get(call.result.value).match_quality \in Tiers


(***************************************************************************)
(* C30: over every sequence of requests at most one MatchingEngine and at  *)
(* most one AIMatcherService is constructed and a model is loaded at most  *)
(* once; the engine's provider is the provider singleton, which has its    *)
(* model from its construction on, so before any similarity is computed;   *)
(* a singleton, once there, is never replaced, so every request is served  *)
(* by the same instance, and get_ai_matcher returns it whatever model name *)
(* a later call passes.                                                    *)
(***************************************************************************)
AtMostOnce ==
    /\ constructed.engines <= 1
    /\ constructed.matchers <= 1
    /\ constructed.loads <= 1
    /\ (engine = None) = (constructed.engines = 0)
    /\ (ai_matcher = None) = (constructed.matchers = 0)

LoadedBeforeUse ==
    /\ ~IsNone(ai_matcher) => (~IsNone(Get(ai_matcher).model) /\ constructed.loads = 1)
    /\ ~IsNone(engine) => ai_matcher = Some(Get(engine).ai_matcher)

SameInstance ==
    /\ ~IsNone(engine) => engine' = engine
    /\ ~IsNone(ai_matcher) => ai_matcher' = ai_matcher
    /\ (call'.op = "get_ai_matcher" /\ ~IsNone(ai_matcher)) => call'.result = Get(ai_matcher)

C30_Singletons == [](AtMostOnce /\ LoadedBeforeUse) /\ [][SameInstance]_vars

\* C30 witness: with the engine constructed, get_ai_matcher was called with
\* another model name than the singleton's and returned the singleton
C30_LaterModelNameIgnored ==
    /\ call.op = "get_ai_matcher"
    /\ ~IsNone(engine)
    /\ call.result = Get(engine).ai_matcher
    /\ call.model_name # call.result.model_name
    /\ constructed = [engines |-> 1, matchers |-> 1, loads |-> 1]

====
